---- MODULE Spec2Model ----
(***************************************************************************)
(* A model of file_tools_mcp.ts: the whitespace-insensitive matcher and    *)
(* the edit operators built on it.                                         *)
(*                                                                         *)
(* Text.  A file is a sequence of Unicode scalars (rawTextChars, the       *)
(* result of Array.from).  A JavaScript string is a sequence of UTF-16     *)
(* code units: .length, indexOf, slice and [i] on a string count code      *)
(* units, while the index maps of the flat view count scalars.  The model  *)
(* keeps both: Units() is the conversion Array.join makes, ArrayFrom() the *)
(* one Array.from makes.  The scalar "U" stands for a scalar outside the   *)
(* basic plane (two code units, "Uh" "Ul").                                *)
(*                                                                         *)
(* All indices are 0-based and end-exclusive as in the source; At() and    *)
(* Slice() translate to TLA+ sequences.                                    *)
(***************************************************************************)
EXTENDS Integers, Sequences, FiniteSets, TLC

VARIABLES
    pc,        \* "idle": the server waits for a request; "done": a tool call has returned
    fstatus,   \* the file at filePath: "ok" | "missing" | "noaccess" | "binary"
    content,   \* its text, a sequence of scalars
    req,       \* the request being served
    resp,      \* what the tool implementation returned
    prev,      \* the file as it was when the request arrived
    fsCalls,   \* the file-system calls the request made, in order
    trace,     \* the spans and offsets the implementation computed on the way
    dirExists  \* whether the parent directory of filePath exists

vars == <<pc, fstatus, content, req, resp, prev, fsCalls, trace, dirExists>>

(***************************************************************************)
(* Bounds of the model.                                                    *)
(***************************************************************************)
MaxFileLen == 5    \* files of letters only
MaxMidLen == 4     \* files of letters, spaces and line feeds
MaxWideLen == 3    \* files over every scalar of the model

(***************************************************************************)
(* Scalars and code units.                                                 *)
(***************************************************************************)
Letters == {"a", "b"}
Astral == {"U"}
WhiteSpaceScalars == {"SP", "LF", "CR"}
Scalars == Letters \cup Astral \cup WhiteSpaceScalars

Min(a, b) == IF a < b THEN a ELSE b
Max(a, b) == IF a > b THEN a ELSE b

\* s[i] of the source (0-based)
At(s, i) == s[i + 1]

\* Array.prototype.slice / String.prototype.slice for non-negative arguments
Slice(s, from, to) ==
    LET f == Min(from, Len(s))
        t == Min(to, Len(s))
    IN  IF f >= t THEN << >> ELSE SubSeq(s, f + 1, t)

SliceFrom(s, from) == Slice(s, from, Len(s))

\* The UTF-16 code units of one scalar
UnitsOf(c) == IF c \in Astral THEN <<"Uh", "Ul">> ELSE <<c>>

\* Array.join(""): the string (code units) a scalar array spells
RECURSIVE Units(_)
Units(chars) ==
    IF chars = << >> THEN << >>
    ELSE UnitsOf(Head(chars)) \o Units(Tail(chars))

\* Array.from(string): code units to scalars, merging a surrogate pair
RECURSIVE ArrayFrom(_)
ArrayFrom(str) ==
    IF str = << >> THEN << >>
    ELSE IF Len(str) >= 2 /\ str[1] = "Uh" /\ str[2] = "Ul"
         THEN <<"U">> \o ArrayFrom(SubSeq(str, 3, Len(str)))
         ELSE <<str[1]>> \o ArrayFrom(Tail(str))

\* WHITE_SPACE.test(char): /\s/ on a one-scalar string
IsWhiteSpace(c) == c \in WhiteSpaceScalars

\* NOT_WHITE_SPACE.test(char): /\S/
IsNotWhiteSpace(c) == c \notin WhiteSpaceScalars

\* normalizeText: text.replace(/\s+/g, ""), the result a string
RECURSIVE StripWs(_)
StripWs(chars) ==
    IF chars = << >> THEN << >>
    ELSE IF IsWhiteSpace(Head(chars)) THEN StripWs(Tail(chars))
         ELSE <<Head(chars)>> \o StripWs(Tail(chars))

normalizeText(text) == Units(StripWs(text))

(***************************************************************************)
(* buildFlatRawTextHelpers: one pass over the scalars.                     *)
(***************************************************************************)
\* a pass that projects whitespace to the flat index before it
RECURSIVE BuildLoopWhiteSpaceBehind(_, _, _)
BuildLoopWhiteSpaceBehind(rawTextChars, i, acc) ==
    IF i >= Len(rawTextChars) THEN acc
    ELSE LET char == At(rawTextChars, i)
             flatIndex == Len(acc.flatChars)
         IN  IF IsWhiteSpace(char)
             THEN BuildLoopWhiteSpaceBehind(rawTextChars, i + 1,
                    [acc EXCEPT !.rawToFlatRaw = Append(@, Max(0, flatIndex - 1))])
             ELSE BuildLoopWhiteSpaceBehind(rawTextChars, i + 1,
                    [flatChars    |-> Append(acc.flatChars, char),
                     flatRawToRaw |-> Append(acc.flatRawToRaw, i),
                     rawToFlatRaw |-> Append(acc.rawToFlatRaw, flatIndex)])

RECURSIVE BuildLoop(_, _, _)
BuildLoop(rawTextChars, i, acc) ==
    IF i >= Len(rawTextChars) THEN acc
    ELSE LET char == At(rawTextChars, i)
             flatIndex == Len(acc.flatChars)
         IN  IF IsWhiteSpace(char)
             THEN BuildLoop(rawTextChars, i + 1,
                    [acc EXCEPT !.rawToFlatRaw = Append(@, flatIndex)])
             ELSE BuildLoop(rawTextChars, i + 1,
                    [flatChars    |-> Append(acc.flatChars, char),
                     flatRawToRaw |-> Append(acc.flatRawToRaw, i),
                     rawToFlatRaw |-> Append(acc.rawToFlatRaw, flatIndex)])

buildFlatRawTextHelpers(rawText) ==
    LET rawTextChars == ArrayFrom(rawText)
        built == BuildLoop(rawTextChars, 0,
                   [flatChars |-> << >>, flatRawToRaw |-> << >>, rawToFlatRaw |-> << >>])
    IN  [rawTextChars |-> rawTextChars,
         flatRawText  |-> Units(built.flatChars),
         flatRawToRaw |-> built.flatRawToRaw,
         rawToFlatRaw |-> built.rawToFlatRaw]

reconstructRawOffset(flatIndex, flatRawToRaw, rawLen) ==
    IF flatIndex >= Len(flatRawToRaw) THEN rawLen ELSE At(flatRawToRaw, flatIndex)

reconstructFlatOffset(rawIndex, rawToFlatRaw) ==
    IF rawIndex >= Len(rawToFlatRaw) THEN Len(rawToFlatRaw) ELSE At(rawToFlatRaw, rawIndex)

rawEndExclusiveToFlatEndExclusive(rawEndExclusive, rawToFlatRaw, rawTextCharsLen, rawFlatTextLen) ==
    IF rawEndExclusive >= rawTextCharsLen THEN rawFlatTextLen
    ELSE IF rawEndExclusive = 0 THEN 0
    ELSE LET flat == reconstructFlatOffset(rawEndExclusive - 1, rawToFlatRaw) + 1
         IN  Max(0, Min(rawFlatTextLen, flat))

reconstructRawSpan(flatStart, flatEndExclusive, flatRawToRaw, rawTextCharsLen) ==
    LET rawStart == reconstructRawOffset(flatStart, flatRawToRaw, rawTextCharsLen)
        rawEndExclusive ==
            IF flatEndExclusive > 0
            THEN reconstructRawOffset(flatEndExclusive - 1, flatRawToRaw, rawTextCharsLen) + 1
            ELSE rawStart
    IN  [rawStart |-> rawStart, rawEndExclusive |-> rawEndExclusive]

sliceBySpan(rawTextChars, span) ==
    Slice(rawTextChars, span.rawStart, span.rawEndExclusive)

replaceBySpan(rawTextChars, span, replacementText) ==
    Slice(rawTextChars, 0, span.rawStart)
        \o replacementText
        \o SliceFrom(rawTextChars, span.rawEndExclusive)

\* Array.prototype.splice(start, deleteCount, ...items), the array afterwards
Splice(arr, start, deleteCount, items) ==
    LET s == Min(start, Len(arr))
        d == Max(0, Min(deleteCount, Len(arr) - s))
    IN  Slice(arr, 0, s) \o items \o SliceFrom(arr, s + d)

(***************************************************************************)
(* Token boundaries.  A read past either end of the array yields           *)
(* undefined, which RegExp.test turns into the string "undefined": not     *)
(* whitespace for /\s/, non-whitespace for /\S/.                           *)
(***************************************************************************)
CharAt(rawTextChars, i) ==
    IF i >= 0 /\ i < Len(rawTextChars) THEN At(rawTextChars, i) ELSE "undefined"

RECURSIVE SkipLeft(_, _, _)
SkipLeft(pos, rawTextChars, overWhiteSpace) ==
    IF pos > 0 /\ (IsWhiteSpace(CharAt(rawTextChars, pos - 1)) <=> overWhiteSpace)
    THEN SkipLeft(pos - 1, rawTextChars, overWhiteSpace)
    ELSE pos

RECURSIVE SkipRight(_, _, _)
SkipRight(pos, rawTextChars, overWhiteSpace) ==
    IF pos < Len(rawTextChars) /\ (IsWhiteSpace(CharAt(rawTextChars, pos)) <=> overWhiteSpace)
    THEN SkipRight(pos + 1, rawTextChars, overWhiteSpace)
    ELSE pos

expandLeftToTokenBoundary(rawIndex, rawTextChars) ==
    SkipLeft(SkipLeft(rawIndex, rawTextChars, TRUE), rawTextChars, FALSE)

expandRightToTokenBoundary(rawIndex, rawTextChars) ==
    SkipRight(SkipRight(rawIndex, rawTextChars, TRUE), rawTextChars, FALSE)

countNonWsInRange(rawStart, rawEndExclusive, rawTextChars) ==
    Cardinality({i \in rawStart .. rawEndExclusive - 1 :
                    IsNotWhiteSpace(CharAt(rawTextChars, i))})

(***************************************************************************)
(* Array helpers.                                                          *)
(***************************************************************************)
\* Array.prototype.sort((a, b) => a.flatStart - b.flatStart): stable
RECURSIVE InsertByFlatStart(_, _)
InsertByFlatStart(sorted, m) ==
    IF sorted = << >> THEN <<m>>
    ELSE IF Head(sorted).flatStart <= m.flatStart
         THEN <<Head(sorted)>> \o InsertByFlatStart(Tail(sorted), m)
         ELSE <<m>> \o sorted

RECURSIVE SortByFlatStart(_)
SortByFlatStart(seq) ==
    IF seq = << >> THEN << >>
    ELSE InsertByFlatStart(SortByFlatStart(SubSeq(seq, 1, Len(seq) - 1)), seq[Len(seq)])

\* String.prototype.indexOf(search, from) for a non-empty search string
IndexOf(text, search, from) ==
    LET hits == {i \in from .. Len(text) - Len(search) :
                    Slice(text, i, i + Len(search)) = search}
    IN  IF hits = {} THEN -1 ELSE CHOOSE i \in hits : \A j \in hits : i <= j

(***************************************************************************)
(* findMatchSpans: the exact phase, then the fuzzy phase.                  *)
(***************************************************************************)
MaxMatches == 3

ExactMatch(flatStart, flatEndExclusive, rawSpan) ==
    [flatStart        |-> flatStart,
     flatEndExclusive |-> flatEndExclusive,
     rawStart         |-> rawSpan.rawStart,
     rawEndExclusive  |-> rawSpan.rawEndExclusive]

RECURSIVE ExactLoop(_, _, _, _, _, _)
\* the body of the loop once indexOf has answered
ExactLoopAt(flatRawText, flatSearchText, rawLen, flatRawToRaw, exactMatches, matchIndex) ==
    IF matchIndex = -1 THEN exactMatches
    ELSE ExactLoop(flatRawText, flatSearchText, rawLen, flatRawToRaw, matchIndex + 1,
            Append(exactMatches,
                ExactMatch(matchIndex, matchIndex + Len(flatSearchText),
                    reconstructRawSpan(matchIndex, matchIndex + Len(flatSearchText),
                                       flatRawToRaw, rawLen))))

ExactLoop(flatRawText, flatSearchText, rawLen, flatRawToRaw, searchStart, exactMatches) ==
    IF searchStart < Len(flatRawText) /\ Len(exactMatches) < MaxMatches
    THEN ExactLoopAt(flatRawText, flatSearchText, rawLen, flatRawToRaw, exactMatches,
                     IndexOf(flatRawText, flatSearchText, searchStart))
    ELSE exactMatches


(***************************************************************************)
(* computeMinMatchLen.  percent = 0.4 + 0.4 * min(len / 1500, 1), kept as  *)
(* an exact fraction: len * percent = (6000 * len + 4 * len * k) / 15000   *)
(* with k = min(len, 1500).                                                *)
(***************************************************************************)
CeilDiv(num, den) == (num + den - 1) \div den

computeMinMatchLen(flatSearchTextLen) ==
    IF flatSearchTextLen <= 8 THEN Min(3, flatSearchTextLen)
    ELSE CeilDiv(6000 * flatSearchTextLen
                    + 4 * flatSearchTextLen * Min(flatSearchTextLen, 1500),
                 15000)

(***************************************************************************)
(* computeZArray over the virtual string pattern . sep . text.             *)
(***************************************************************************)
ZCharAt(pattern, text, reverse, idx) ==
    LET patternLen == Len(pattern)
        textLen == Len(text)
        textIdx == idx - (patternLen + 1)
    IN  IF idx < patternLen
        THEN (IF reverse THEN At(pattern, patternLen - 1 - idx) ELSE At(pattern, idx))
        ELSE IF idx = patternLen THEN "null"
        ELSE (IF reverse THEN At(text, textLen - 1 - textIdx) ELSE At(text, textIdx))

RECURSIVE ZExtend(_, _, _, _, _)
ZExtend(pattern, text, reverse, pos, zpos) ==
    IF pos + zpos < Len(pattern) + 1 + Len(text)
    THEN LET a == ZCharAt(pattern, text, reverse, zpos)
             b == ZCharAt(pattern, text, reverse, pos + zpos)
         IN  IF a = "null" \/ b = "null" \/ a # b THEN zpos
             ELSE ZExtend(pattern, text, reverse, pos, zpos + 1)
    ELSE zpos

RECURSIVE ZLoop(_, _, _, _, _, _, _)
\* the rest of one iteration, z[pos] extended to zpos
ZLoopAt(pattern, text, reverse, pos, z, L, R, zpos) ==
    IF pos + zpos - 1 > R
    THEN ZLoop(pattern, text, reverse, pos + 1, Append(z, zpos), pos, pos + zpos - 1)
    ELSE ZLoop(pattern, text, reverse, pos + 1, Append(z, zpos), L, R)

ZLoop(pattern, text, reverse, pos, z, L, R) ==
    IF pos >= Len(pattern) + 1 + Len(text) THEN z
    ELSE ZLoopAt(pattern, text, reverse, pos, z, L, R,
            ZExtend(pattern, text, reverse, pos,
                    IF pos <= R THEN Min(R - pos + 1, At(z, pos - L)) ELSE 0))

computeZArray(pattern, text, reverse) ==
    [ZLoop(pattern, text, reverse, 1, <<0>>, 0, 0) EXCEPT ![1] = Len(pattern) + 1 + Len(text)]

\* matches[pos] for every text position, read off the Z array
PrefixLens(z, patternLen, textLen) ==
    [pos \in 1 .. textLen |->
        IF At(z, patternLen + 1 + (pos - 1)) > patternLen THEN patternLen
        ELSE At(z, patternLen + 1 + (pos - 1))]

computePrefixMatches(pattern, text) ==
    PrefixLens(computeZArray(pattern, text, FALSE), Len(pattern), Len(text))

RECURSIVE SuffixLoop(_, _, _, _, _)
SuffixLoop(z, patternLen, textLen, rpos, matches) ==
    IF rpos >= textLen THEN matches
    ELSE LET matchLen == At(z, patternLen + 1 + rpos)
             matchLenCapped == IF matchLen > patternLen THEN patternLen ELSE matchLen
             start == textLen - rpos - matchLenCapped
         IN  IF matchLenCapped <= 0
             THEN SuffixLoop(z, patternLen, textLen, rpos + 1, matches)
             ELSE IF start >= 0 /\ start < textLen /\ At(matches, start) < matchLenCapped
                  THEN SuffixLoop(z, patternLen, textLen, rpos + 1,
                                  [matches EXCEPT ![start + 1] = matchLenCapped])
                  ELSE SuffixLoop(z, patternLen, textLen, rpos + 1, matches)

computeSuffixMatches(pattern, text) ==
    SuffixLoop(computeZArray(pattern, text, TRUE), Len(pattern), Len(text), 0,
               [pos \in 1 .. Len(text) |-> 0])

(***************************************************************************)
(* The suffix automaton.  nodes is 0-based as in the source: node k is     *)
(* nodes[k + 1].  next is a function from the keys present to nodes.       *)
(***************************************************************************)
PositiveInfinity == 1000000
NegativeInfinity == -1000000

SAMNode(len) ==
    [next |-> << >>, link |-> -1, len |-> len, firstPos |-> -1,
     minEnd |-> PositiveInfinity, maxEnd |-> NegativeInfinity]

NextHas(node, c) == c \in DOMAIN node.next
NextSet(node, c, to) ==
    [node EXCEPT !.next = [k \in (DOMAIN node.next) \cup {c} |->
                              IF k = c THEN to ELSE node.next[k]]]

\* while (p !== -1 && !nodes[p].next.has(c)) { nodes[p].next.set(c, cur); p = nodes[p].link }
RECURSIVE SamLinkNew(_, _, _, _)
SamLinkNew(nodes, p, c, cur) ==
    IF p # -1 /\ ~NextHas(At(nodes, p), c)
    THEN SamLinkNew([nodes EXCEPT ![p + 1] = NextSet(@, c, cur)], At(nodes, p).link, c, cur)
    ELSE [nodes |-> nodes, p |-> p]

\* while (p !== -1 && nodes[p].next.get(c) === q) { nodes[p].next.set(c, clone); p = nodes[p].link }
RECURSIVE SamRedirect(_, _, _, _, _)
SamRedirect(nodes, p, c, q, clone) ==
    IF p # -1 /\ NextHas(At(nodes, p), c) /\ At(nodes, p).next[c] = q
    THEN SamRedirect([nodes EXCEPT ![p + 1] = NextSet(@, c, clone)],
                     At(nodes, p).link, c, q, clone)
    ELSE nodes

\* the node addChar creates for the new longest string
CurNode(newLen) ==
    [SAMNode(newLen) EXCEPT !.firstPos = newLen - 1,
                            !.minEnd = newLen - 1,
                            !.maxEnd = newLen - 1]

\* the copy of q that addChar makes when q is too long to be the link
CloneNode(nodes, p, q) ==
    [SAMNode(At(nodes, p).len + 1) EXCEPT !.next = At(nodes, q).next,
                                         !.link = At(nodes, q).link,
                                         !.firstPos = At(nodes, q).firstPos,
                                         !.minEnd = At(nodes, q).firstPos,
                                         !.maxEnd = At(nodes, q).firstPos]

\* addChar from const q = nodes[p].next.get(c)
AddCharSplit(nodes, cur, c, p, q) ==
    IF At(nodes, p).len + 1 = At(nodes, q).len
    THEN [nodes |-> [nodes EXCEPT ![cur + 1].link = q], last |-> cur]
    ELSE [nodes |-> [SamRedirect(Append(nodes, CloneNode(nodes, p, q)), p, c, q, Len(nodes))
                        EXCEPT ![q + 1].link = Len(nodes), ![cur + 1].link = Len(nodes)],
          last |-> cur]

\* addChar after its first while loop, which left nodes and p
AddCharLinked(walked, cur, c) ==
    IF walked.p = -1
    THEN [nodes |-> [walked.nodes EXCEPT ![cur + 1].link = 0], last |-> cur]
    ELSE AddCharSplit(walked.nodes, cur, c, walked.p, At(walked.nodes, walked.p).next[c])

addChar(sam, c) ==
    AddCharLinked(
        SamLinkNew(Append(sam.nodes, CurNode(At(sam.nodes, sam.last).len + 1)),
                   sam.last, c, Len(sam.nodes)),
        Len(sam.nodes), c)

RECURSIVE SamAddAll(_, _)
SamAddAll(sam, chars) ==
    IF chars = << >> THEN sam
    ELSE SamAddAll(addChar(sam, Head(chars)), Tail(chars))

\* [...nodes.keys()].sort((a, b) => nodes[a].len - nodes[b].len): stable
RECURSIVE InsertByLen(_, _, _)
InsertByLen(nodes, sorted, v) ==
    IF sorted = << >> THEN <<v>>
    ELSE IF At(nodes, Head(sorted)).len <= At(nodes, v).len
         THEN <<Head(sorted)>> \o InsertByLen(nodes, Tail(sorted), v)
         ELSE <<v>> \o sorted

RECURSIVE OrderByLen(_, _)
OrderByLen(nodes, n) ==
    IF n = 0 THEN << >>
    ELSE InsertByLen(nodes, OrderByLen(nodes, n - 1), n - 1)

\* a build that leaves the end positions as addChar set them
PropagateNothing(nodes, order, i) == nodes

\* for (i = order.length - 1; i >= 1; --i): fold minEnd / maxEnd into the link
RECURSIVE Propagate(_, _, _)
Propagate(nodes, order, i) ==
    IF i < 1 THEN nodes
    ELSE LET v == At(order, i)
             link == At(nodes, v).link
         IN  IF link >= 0
             THEN Propagate(
                    [nodes EXCEPT
                        ![link + 1].minEnd = Min(At(nodes, link).minEnd, At(nodes, v).minEnd),
                        ![link + 1].maxEnd = Max(At(nodes, link).maxEnd, At(nodes, v).maxEnd)],
                    order, i - 1)
             ELSE Propagate(nodes, order, i - 1)

\* the second half of build: order the nodes by len and fold the end positions
SamPropagated(sam) ==
    LET order == OrderByLen(sam.nodes, Len(sam.nodes))
    IN  [nodes |-> Propagate(sam.nodes, order, Len(order) - 1), last |-> sam.last]

\* SuffixAutomaton.build(s); for (const ch of s) walks the scalars of s
SuffixAutomatonBuild(s) ==
    SamPropagated(SamAddAll([nodes |-> <<SAMNode(0)>>, last |-> 0], ArrayFrom(s)))


(***************************************************************************)
(* Materialising a raw match into a candidate span.  NoCandidate is the    *)
(* null the creators return.                                               *)
(***************************************************************************)
NoCandidate == [none |-> TRUE]

MatchSpan(rawStart, rawEndExclusive, flatStart, flatEndExclusive) ==
    [flatStart |-> flatStart, flatEndExclusive |-> flatEndExclusive,
     rawStart |-> rawStart, rawEndExclusive |-> rawEndExclusive]

\* the span a creator returns for the raw range it settled on
CandidateSpan(rawStart, rawEndExclusive, rawTextChars, flatRawToRaw, rawToFlatRaw) ==
    MatchSpan(rawStart, rawEndExclusive,
        reconstructFlatOffset(rawStart, rawToFlatRaw),
        rawEndExclusiveToFlatEndExclusive(rawEndExclusive, rawToFlatRaw,
            Len(rawTextChars), Len(flatRawToRaw)))

RECURSIVE WidenRight(_, _, _, _)
WidenRight(rawStart, expandedEndExclusive, targetLen, rawTextChars) ==
    LET nextEndExclusive ==
            expandRightToTokenBoundary(expandedEndExclusive + 1, rawTextChars)
    IN
    IF countNonWsInRange(rawStart, expandedEndExclusive, rawTextChars) < targetLen
       /\ expandedEndExclusive < Len(rawTextChars)
    THEN (IF nextEndExclusive <= expandedEndExclusive THEN expandedEndExclusive
          ELSE WidenRight(rawStart, nextEndExclusive, targetLen, rawTextChars))
    ELSE expandedEndExclusive

PrefixCandidateAt(rawStart, targetLen, rawTextChars, flatRawToRaw, rawToFlatRaw) ==
    IF rawStart >= Len(rawTextChars) THEN NoCandidate
    ELSE CandidateSpan(rawStart,
            WidenRight(rawStart, expandRightToTokenBoundary(rawStart, rawTextChars),
                       targetLen, rawTextChars),
            rawTextChars, flatRawToRaw, rawToFlatRaw)

createPrefixCandidate(flatStart, targetLen, rawTextChars, flatRawToRaw, rawToFlatRaw) ==
    PrefixCandidateAt(reconstructRawOffset(flatStart, flatRawToRaw, Len(rawTextChars)),
                      targetLen, rawTextChars, flatRawToRaw, rawToFlatRaw)

RECURSIVE WidenLeft(_, _, _, _)
WidenLeft(expandedStart, rawEndExclusive, targetLen, rawTextChars) ==
    LET prevStart == expandLeftToTokenBoundary(Max(0, expandedStart - 1), rawTextChars)
    IN
    IF countNonWsInRange(expandedStart, rawEndExclusive, rawTextChars) < targetLen
       /\ expandedStart > 0
    THEN (IF prevStart >= expandedStart THEN expandedStart
          ELSE WidenLeft(prevStart, rawEndExclusive, targetLen, rawTextChars))
    ELSE expandedStart

SuffixCandidateAt(rawEndExclusive, targetLen, rawTextChars, flatRawToRaw, rawToFlatRaw) ==
    IF rawEndExclusive > Len(rawTextChars) THEN NoCandidate
    ELSE CandidateSpan(
            WidenLeft(expandLeftToTokenBoundary(Max(0, rawEndExclusive - 1), rawTextChars),
                      rawEndExclusive, targetLen, rawTextChars),
            rawEndExclusive, rawTextChars, flatRawToRaw, rawToFlatRaw)

createSuffixCandidate(flatEndExclusive, targetLen, rawTextChars, flatRawToRaw, rawToFlatRaw) ==
    SuffixCandidateAt(
        reconstructRawOffset(flatEndExclusive, flatRawToRaw, Len(rawTextChars)) + 1,
        targetLen, rawTextChars, flatRawToRaw, rawToFlatRaw)

CombinedCandidateAt(rawStart, rawEndExclusive, rawTextChars, flatRawToRaw, rawToFlatRaw) ==
    IF rawStart >= Len(rawTextChars) \/ rawEndExclusive > Len(rawTextChars)
    THEN NoCandidate
    ELSE CandidateSpan(rawStart, rawEndExclusive, rawTextChars, flatRawToRaw, rawToFlatRaw)

createCombinedCandidate(prefixFlatStart, suffixFlatEndExclusive, rawTextChars, flatRawToRaw, rawToFlatRaw) ==
    IF prefixFlatStart >= Len(flatRawToRaw) THEN NoCandidate
    ELSE IF suffixFlatEndExclusive - 1 >= Len(flatRawToRaw) THEN NoCandidate
    ELSE CombinedCandidateAt(
            reconstructRawOffset(prefixFlatStart, flatRawToRaw, Len(rawTextChars)),
            reconstructRawOffset(suffixFlatEndExclusive - 1, flatRawToRaw,
                                 Len(rawTextChars)) + 1,
            rawTextChars, flatRawToRaw, rawToFlatRaw)

RECURSIVE WidenBoth(_, _, _, _)
\* one round of the while loop, both ends moved: stop when nothing was gained
WidenBothTo(before, start2, end2, targetLen, rawTextChars) ==
    IF countNonWsInRange(start2, end2, rawTextChars) = before
    THEN [start |-> start2, endExclusive |-> end2]
    ELSE WidenBoth(start2, end2, targetLen, rawTextChars)

WidenBothBy(expandedStart, expandedEndExclusive, newLeft, newRight, targetLen, rawTextChars) ==
    WidenBothTo(countNonWsInRange(expandedStart, expandedEndExclusive, rawTextChars),
        IF expandedStart > 0 /\ newLeft < expandedStart THEN newLeft ELSE expandedStart,
        IF expandedEndExclusive < Len(rawTextChars) /\ newRight > expandedEndExclusive
        THEN newRight ELSE expandedEndExclusive,
        targetLen, rawTextChars)

WidenBoth(expandedStart, expandedEndExclusive, targetLen, rawTextChars) ==
    IF countNonWsInRange(expandedStart, expandedEndExclusive, rawTextChars) < targetLen
    THEN WidenBothBy(expandedStart, expandedEndExclusive,
            expandLeftToTokenBoundary(Max(0, expandedStart - 1), rawTextChars),
            expandRightToTokenBoundary(expandedEndExclusive + 1, rawTextChars),
            targetLen, rawTextChars)
    ELSE [start |-> expandedStart, endExclusive |-> expandedEndExclusive]

WidenedCandidate(widened, rawTextChars, flatRawToRaw, rawToFlatRaw) ==
    CandidateSpan(widened.start, widened.endExclusive, rawTextChars, flatRawToRaw, rawToFlatRaw)

MidCandidateAt(rawStart, rawEndExclusive, targetLen, rawTextChars, flatRawToRaw, rawToFlatRaw) ==
    IF rawStart >= Len(rawTextChars) \/ rawEndExclusive > Len(rawTextChars)
    THEN NoCandidate
    ELSE WidenedCandidate(
            WidenBoth(expandLeftToTokenBoundary(rawStart, rawTextChars),
                      expandRightToTokenBoundary(rawEndExclusive, rawTextChars),
                      targetLen, rawTextChars),
            rawTextChars, flatRawToRaw, rawToFlatRaw)

createMidCandidate(flatStart, flatEndExclusive, targetLen, rawTextChars, flatRawToRaw, rawToFlatRaw) ==
    IF flatStart >= Len(flatRawToRaw) THEN NoCandidate
    ELSE IF flatEndExclusive - 1 >= Len(flatRawToRaw) THEN NoCandidate
    ELSE MidCandidateAt(
            reconstructRawOffset(flatStart, flatRawToRaw, Len(rawTextChars)),
            reconstructRawOffset(flatEndExclusive - 1, flatRawToRaw, Len(rawTextChars)) + 1,
            targetLen, rawTextChars, flatRawToRaw, rawToFlatRaw)


(***************************************************************************)
(* findPotentialMatches: the fuzzy phase.                                  *)
(***************************************************************************)
RawMatch(matchType, flatStart, flatEndExclusive, matchedLen) ==
    [matchType |-> matchType, flatStart |-> flatStart,
     flatEndExclusive |-> flatEndExclusive, matchedLen |-> matchedLen]

\* the prefix (suffix) raw-matches: one per text position with a positive length
RECURSIVE LenMatches(_, _, _, _)
LenMatches(matchType, lens, flatSearchTextLen, i) ==
    IF i >= Len(lens) THEN << >>
    ELSE LET L == Min(At(lens, i), flatSearchTextLen)
         IN  (IF L > 0 THEN <<RawMatch(matchType, i, i + L, L)>> ELSE << >>)
             \o LenMatches(matchType, lens, flatSearchTextLen, i + 1)

\* while (state !== -1 && !nodes[state].next.has(c)) state = nodes[state].link
RECURSIVE SamFollowLinks(_, _, _)
SamFollowLinks(nodes, state, c) ==
    IF state # -1 /\ ~NextHas(At(nodes, state), c)
    THEN SamFollowLinks(nodes, At(nodes, state).link, c)
    ELSE state

\* one step of the streaming scan: the state and match length after reading c
SamStep(nodes, state, len, c) ==
    IF NextHas(At(nodes, state), c)
    THEN [state |-> At(nodes, state).next[c], len |-> len + 1]
    ELSE LET st == SamFollowLinks(nodes, state, c)
         IN  IF st = -1 THEN [state |-> 0, len |-> 0]
             ELSE [state |-> At(nodes, st).next[c], len |-> At(nodes, st).len + 1]

RECURSIVE MidScan(_, _, _, _, _, _, _)
\* the rest of one iteration, nxt being the state and length after reading flatRawText[i]
MidScanAt(nodes, flatRawText, flatSearchTextLen, minMatchLen, i, nxt) ==
    (IF nxt.len >= minMatchLen
        /\ ~(At(nodes, nxt.state).minEnd = nxt.len - 1)
        /\ ~(At(nodes, nxt.state).maxEnd = flatSearchTextLen - 1)
     THEN <<RawMatch("mid", i - nxt.len + 1, i + 1, nxt.len)>>
     ELSE << >>)
    \o MidScan(nodes, flatRawText, flatSearchTextLen, minMatchLen, i + 1, nxt.state, nxt.len)

MidScan(nodes, flatRawText, flatSearchTextLen, minMatchLen, i, state, len) ==
    IF i >= Len(flatRawText) THEN << >>
    ELSE MidScanAt(nodes, flatRawText, flatSearchTextLen, minMatchLen, i,
                   SamStep(nodes, state, len, At(flatRawText, i)))

\* lowerBoundSuffix: the first index whose flatStart is at least startPos
lowerBoundSuffix(filteredSuffixes, startPos) ==
    Cardinality({j \in 1 .. Len(filteredSuffixes) :
                    filteredSuffixes[j].flatStart < startPos})

\* the inner loop over the sorted suffixes for one prefix, with its continue / break
RECURSIVE CombineWith(_, _, _, _, _)
CombineWith(pre, filteredSuffixes, j, flatSearchTextLen, minMatchLen) ==
    IF j >= Len(filteredSuffixes) THEN << >>
    ELSE LET suf == At(filteredSuffixes, j)
             rawSpan == suf.flatEndExclusive - pre.flatStart
             combinedLen == pre.matchedLen + suf.matchedLen
             rest == CombineWith(pre, filteredSuffixes, j + 1, flatSearchTextLen, minMatchLen)
         IN  IF suf.flatStart < pre.flatEndExclusive THEN rest
             ELSE IF 4 * rawSpan < 3 * flatSearchTextLen THEN rest
             ELSE IF 4 * rawSpan > 5 * flatSearchTextLen THEN << >>
             ELSE IF combinedLen >= minMatchLen
                  THEN <<RawMatch("combined", pre.flatStart, suf.flatEndExclusive, combinedLen)>>
                       \o rest
                  ELSE rest

RECURSIVE CombineAll(_, _, _, _, _)
CombineAll(filteredPrefixes, k, filteredSuffixes, flatSearchTextLen, minMatchLen) ==
    IF k >= Len(filteredPrefixes) THEN << >>
    ELSE LET pre == At(filteredPrefixes, k)
         IN  CombineWith(pre, filteredSuffixes,
                         lowerBoundSuffix(filteredSuffixes, pre.flatEndExclusive),
                         flatSearchTextLen, minMatchLen)
             \o CombineAll(filteredPrefixes, k + 1, filteredSuffixes,
                           flatSearchTextLen, minMatchLen)

\* keep the first raw-match of every (flatStart, flatEndExclusive)
RECURSIVE Dedupe(_, _)
Dedupe(matches, seen) ==
    IF matches = << >> THEN << >>
    ELSE LET m == Head(matches)
             key == <<m.flatStart, m.flatEndExclusive>>
         IN  IF key \in seen THEN Dedupe(Tail(matches), seen)
             ELSE <<m>> \o Dedupe(Tail(matches), seen \cup {key})

MaxOf(S) == CHOOSE x \in S : \A y \in S : y <= x

\* the raw-matches of the four kinds, before ranking
RawMatchesFiltered(flatSearchTextLen, minMatchLen, midMatches, filteredPrefixes, filteredSuffixes) ==
    [qualifiedPrefixes |-> SelectSeq(filteredPrefixes, LAMBDA m : m.matchedLen >= minMatchLen),
     qualifiedSuffixes |-> SelectSeq(filteredSuffixes, LAMBDA m : m.matchedLen >= minMatchLen),
     midMatches |-> midMatches,
     combinedMatches |->
         IF Len(filteredPrefixes) > 0 /\ Len(filteredSuffixes) > 0
         THEN CombineAll(filteredPrefixes, 0, filteredSuffixes, flatSearchTextLen, minMatchLen)
         ELSE << >>]

RawMatchesFrom(flatRawText, flatSearchTextLen, minMatchLen, prefixThreshold, prefixMatches, suffixMatches, sam) ==
    RawMatchesFiltered(flatSearchTextLen, minMatchLen,
        MidScan(sam.nodes, flatRawText, flatSearchTextLen, minMatchLen, 0, 0, 0),
        SelectSeq(prefixMatches, LAMBDA m : m.matchedLen >= prefixThreshold),
        SortByFlatStart(SelectSeq(suffixMatches, LAMBDA m : m.matchedLen >= prefixThreshold)))

RawMatchesOf(flatRawText, flatSearchText) ==
    LET minMatchLen == computeMinMatchLen(Len(flatSearchText))
    IN
    RawMatchesFrom(flatRawText, Len(flatSearchText), minMatchLen,
        Max(1, minMatchLen \div 2),
        LenMatches("prefix", computePrefixMatches(flatSearchText, flatRawText),
                   Len(flatSearchText), 0),
        LenMatches("suffix", computeSuffixMatches(flatSearchText, flatRawText),
                   Len(flatSearchText), 0),
        SuffixAutomatonBuild(flatSearchText))

\* a selection that takes the first 3 of the longest as they were collected
SelectRawMatchesUnsorted(raw) ==
    LET allCandidatesRaw == raw.qualifiedPrefixes \o raw.qualifiedSuffixes
                            \o raw.midMatches \o raw.combinedMatches
        maxLen == MaxOf({allCandidatesRaw[k].matchedLen : k \in 1 .. Len(allCandidatesRaw)})
        longestMatches == SelectSeq(allCandidatesRaw, LAMBDA m : m.matchedLen = maxLen)
    IN  IF Len(allCandidatesRaw) = 0 THEN << >> ELSE Slice(Dedupe(longestMatches, {}), 0, 3)

\* the raw-matches selected for materialisation: longest, deduplicated, sorted, first 3
SelectRawMatches(raw) ==
    LET allCandidatesRaw == raw.qualifiedPrefixes \o raw.qualifiedSuffixes
                            \o raw.midMatches \o raw.combinedMatches
        maxLen == MaxOf({allCandidatesRaw[k].matchedLen : k \in 1 .. Len(allCandidatesRaw)})
        longestMatches == SelectSeq(allCandidatesRaw, LAMBDA m : m.matchedLen = maxLen)
        uniqueLongest == SortByFlatStart(Dedupe(longestMatches, {}))
    IN  IF Len(allCandidatesRaw) = 0 THEN << >> ELSE Slice(uniqueLongest, 0, 3)

Materialize(m, flatSearchTextLen, rawTextChars, flatRawToRaw, rawToFlatRaw) ==
    CASE m.matchType = "prefix" ->
            createPrefixCandidate(m.flatStart, flatSearchTextLen, rawTextChars,
                                  flatRawToRaw, rawToFlatRaw)
      [] m.matchType = "suffix" ->
            createSuffixCandidate(m.flatEndExclusive, flatSearchTextLen, rawTextChars,
                                  flatRawToRaw, rawToFlatRaw)
      [] m.matchType = "mid" ->
            createMidCandidate(m.flatStart, m.flatEndExclusive, flatSearchTextLen,
                               rawTextChars, flatRawToRaw, rawToFlatRaw)
      [] m.matchType = "combined" ->
            createCombinedCandidate(m.flatStart, m.flatEndExclusive, rawTextChars,
                                    flatRawToRaw, rawToFlatRaw)

IsCandidate(c) == "none" \notin DOMAIN c

\* the candidates made of the selected raw-matches, the nulls dropped
MaterializeAll(selected, flatSearchTextLen, rawTextChars, flatRawToRaw, rawToFlatRaw) ==
    SelectSeq([k \in 1 .. Len(selected) |->
                  Materialize(selected[k], flatSearchTextLen, rawTextChars,
                              flatRawToRaw, rawToFlatRaw)],
              IsCandidate)

findPotentialMatches(flatRawText, flatSearchText, rawTextChars, flatRawToRaw, rawToFlatRaw) ==
    IF Len(flatSearchText) = 0 \/ Len(flatRawText) = 0 THEN << >>
    ELSE MaterializeAll(SelectRawMatches(RawMatchesOf(flatRawText, flatSearchText)),
                        Len(flatSearchText), rawTextChars, flatRawToRaw, rawToFlatRaw)

\* findMatchSpans from the end of its exact phase
MatchSpansFrom(exactMatches, flatRawText, flatSearchText, rawTextChars, flatRawToRaw, rawToFlatRaw) ==
    IF Len(exactMatches) > 0
    THEN [spans |-> SortByFlatStart(exactMatches), isExactMatch |-> TRUE]
    ELSE [spans |-> findPotentialMatches(flatRawText, flatSearchText, rawTextChars,
                                         flatRawToRaw, rawToFlatRaw),
          isExactMatch |-> FALSE]

\* a variant that takes an empty search text to match the whole of the text
findMatchSpansEmptyMatchesAll(flatRawText, flatSearchText, rawTextChars, flatRawToRaw, rawToFlatRaw) ==
    IF Len(flatRawText) = 0 THEN [spans |-> << >>, isExactMatch |-> FALSE]
    ELSE IF Len(flatSearchText) = 0
    THEN [spans |-> <<[flatStart |-> 0, flatEndExclusive |-> Len(flatRawText),
                       rawStart |-> 0, rawEndExclusive |-> Len(rawTextChars)]>>,
          isExactMatch |-> TRUE]
    ELSE MatchSpansFrom(
            ExactLoop(flatRawText, flatSearchText, Len(rawTextChars), flatRawToRaw, 0, << >>),
            flatRawText, flatSearchText, rawTextChars, flatRawToRaw, rawToFlatRaw)

findMatchSpans(flatRawText, flatSearchText, rawTextChars, flatRawToRaw, rawToFlatRaw) ==
    IF Len(flatRawText) = 0 THEN [spans |-> << >>, isExactMatch |-> FALSE]
    ELSE IF Len(flatSearchText) = 0 THEN [spans |-> << >>, isExactMatch |-> FALSE]
    ELSE MatchSpansFrom(
            ExactLoop(flatRawText, flatSearchText, Len(rawTextChars), flatRawToRaw, 0, << >>),
            flatRawText, flatSearchText, rawTextChars, flatRawToRaw, rawToFlatRaw)


(***************************************************************************)
(* The disambiguation expander.                                            *)
(***************************************************************************)
\* newStart (newEndExclusive) is taken only where it widens the span; the flat
\* offsets are reconstructed from the raw ones
ExpandedTo(span, newStart, newEndExclusive, rawTextToFlat) ==
    LET rawStart == IF newStart < span.rawStart THEN newStart ELSE span.rawStart
        rawEndExclusive == IF newEndExclusive > span.rawEndExclusive
                           THEN newEndExclusive ELSE span.rawEndExclusive
    IN  [flatStart |-> reconstructFlatOffset(rawStart, rawTextToFlat),
         flatEndExclusive |->
             reconstructFlatOffset(Max(0, rawEndExclusive - 1), rawTextToFlat) + 1,
         rawStart |-> rawStart,
         rawEndExclusive |-> rawEndExclusive]

\* an expansion that gives up the token on the left it had
expandSpanForDisambiguationShrinking(span, rawTextChars, rawTextToFlat) ==
    ExpandedTo([span EXCEPT !.rawStart = Min(span.rawStart + 1, span.rawEndExclusive)],
        span.rawStart + 1,
        expandRightToTokenBoundary(Min(Len(rawTextChars), span.rawEndExclusive + 1),
                                   rawTextChars),
        rawTextToFlat)

expandSpanForDisambiguation(span, rawTextChars, rawTextToFlat) ==
    ExpandedTo(span,
        expandLeftToTokenBoundary(Max(0, span.rawStart - 1), rawTextChars),
        expandRightToTokenBoundary(Min(Len(rawTextChars), span.rawEndExclusive + 1),
                                   rawTextChars),
        rawTextToFlat)

\* the spans that share their flat slice with another span still expandable
InDuplicateGroup(slices, flatSlices, grouped) ==
    {k \in grouped : \E j \in grouped : j # k /\ flatSlices[j] = flatSlices[k]}

RECURSIVE DisambiguationLoop(_, _, _, _, _)
\* one round of the do-while loop: the members of duplicate groups, expanded or
\* retired; changed holds those whose expansion moved an end
DisambiguationRound(slices, nonExpandableSpanIndices, rawTextChars, flatRawText, rawToFlatRaw, inDuplicateGroup, expanded) ==
    LET changed == {k \in inDuplicateGroup :
                       expanded[k].rawStart # slices[k].rawStart
                       \/ expanded[k].rawEndExclusive # slices[k].rawEndExclusive}
    IN
    IF inDuplicateGroup = {} THEN slices
    ELSE DisambiguationLoop(
            [k \in 1 .. Len(slices) |-> IF k \in changed THEN expanded[k] ELSE slices[k]],
            nonExpandableSpanIndices \cup (inDuplicateGroup \ changed),
            rawTextChars, flatRawText, rawToFlatRaw)

DisambiguationLoop(slices, nonExpandableSpanIndices, rawTextChars, flatRawText, rawToFlatRaw) ==
    DisambiguationRound(slices, nonExpandableSpanIndices, rawTextChars, flatRawText,
        rawToFlatRaw,
        InDuplicateGroup(slices,
            [k \in 1 .. Len(slices) |->
                Slice(flatRawText, slices[k].flatStart, slices[k].flatEndExclusive)],
            (1 .. Len(slices)) \ nonExpandableSpanIndices),
        [k \in 1 .. Len(slices) |->
            expandSpanForDisambiguation(slices[k], rawTextChars, rawToFlatRaw)])

\* spans.map((s) => sliceBySpan(rawTextChars, s).join(""))
SlicesBySpans(rawTextChars, slices) ==
    [k \in 1 .. Len(slices) |-> sliceBySpan(rawTextChars, slices[k])]

generateDisambiguationSuggestionsFromSpans(spans, rawTextChars, flatRawText, rawToFlatRaw) ==
    IF Len(spans) = 0 THEN << >>
    ELSE SlicesBySpans(rawTextChars,
            DisambiguationLoop(spans, {}, rawTextChars, flatRawText, rawToFlatRaw))

(***************************************************************************)
(* What a tool implementation returns, and what it did to the file system. *)
(* message is the entry of the messages catalogue; param the parameter a   *)
(* message names; count the number a success message reports; each        *)
(* suggestion is an object with the single key searchPropName.             *)
(***************************************************************************)
Result(success, message, param, hasSuggestions, suggestions) ==
    [success |-> success, message |-> message, param |-> param, count |-> 0,
     hasSuggestions |-> hasSuggestions, SuggestedParameterValues |-> suggestions]

Failure(message) == Result(FALSE, message, "", FALSE, << >>)
Success(message) == Result(TRUE, message, "", FALSE, << >>)

NoTrace == [op |-> "none"]

Outcome(result, calls, newStatus, newContent, computed) ==
    [result |-> result, calls |-> calls, fstatus |-> newStatus,
     content |-> newContent, trace |-> computed]

\* a variant that never asks whether the file is binary
validateTextFileToEditNoBinaryCheck(status, checkIfBinary) ==
    IF status = "missing"
    THEN [success |-> FALSE, message |-> "fileNotExist", calls |-> <<"existsSync">>]
    ELSE IF status = "noaccess"
    THEN [success |-> FALSE, message |-> "filePermissionError",
          calls |-> <<"existsSync", "access">>]
    ELSE [success |-> TRUE, message |-> "", calls |-> <<"existsSync", "access">>]

validateTextFileToEdit(status, checkIfBinary) ==
    IF status = "missing"
    THEN [success |-> FALSE, message |-> "fileNotExist", calls |-> <<"existsSync">>]
    ELSE IF status = "noaccess"
    THEN [success |-> FALSE, message |-> "filePermissionError",
          calls |-> <<"existsSync", "access">>]
    ELSE IF checkIfBinary
    THEN IF status = "binary"
         THEN [success |-> FALSE, message |-> "binaryFileError",
               calls |-> <<"existsSync", "access", "isBinaryFile">>]
         ELSE [success |-> TRUE, message |-> "",
               calls |-> <<"existsSync", "access", "isBinaryFile">>]
    ELSE [success |-> TRUE, message |-> "", calls |-> <<"existsSync", "access">>]

\* suggestions.map((s) => ({ [searchPropName]: s }))
SuggestedValues(suggestions, searchPropName) ==
    [k \in 1 .. Len(suggestions) |-> [n \in {searchPropName} |-> suggestions[k]]]

\* the first of every suggested string
DistinctOnly(suggestions) ==
    LET kept == SelectSeq([k \in 1 .. Len(suggestions) |-> k],
                          LAMBDA k : \A j \in 1 .. k - 1 : suggestions[j] # suggestions[k])
    IN  [k \in 1 .. Len(kept) |-> suggestions[kept[k]]]

\* a variant that offers each suggested string once
handleSearchTextMatchIssuesDistinct(spans, rawTextChars, flatRawText, rawToFlatRaw, message, searchPropName) ==
    Result(FALSE, message, searchPropName, TRUE,
        SuggestedValues(
            DistinctOnly(generateDisambiguationSuggestionsFromSpans(
                spans, rawTextChars, flatRawText, rawToFlatRaw)),
            searchPropName))

handleSearchTextMatchIssues(spans, rawTextChars, flatRawText, rawToFlatRaw, message, searchPropName) ==
    Result(FALSE, message, searchPropName, TRUE,
        SuggestedValues(
            generateDisambiguationSuggestionsFromSpans(
                spans, rawTextChars, flatRawText, rawToFlatRaw),
            searchPropName))

(***************************************************************************)
(* searchTextAndReplace, behind replace_matching_text and                  *)
(* delete_matching_text.                                                   *)
(***************************************************************************)
\* for (i = spans.length - 1; i >= 0; i--): rewrite newRawText, then splice the array
RECURSIVE ReplaceLoop(_, _, _, _, _)
ReplaceLoop(rawTextChars, spans, i, replacementText, newRawText) ==
    IF i < 0 THEN newRawText
    ELSE LET span == At(spans, i)
         IN  ReplaceLoop(
                Splice(rawTextChars, span.rawStart, span.rawEndExclusive - span.rawStart,
                       ArrayFrom(Units(replacementText))),
                spans, i - 1, replacementText,
                replaceBySpan(rawTextChars, span, replacementText))

\* findMatchSpans on the helpers of the text read, for one of the request's strings
FindIn(h, searchText) ==
    findMatchSpans(h.flatRawText, normalizeText(searchText), h.rawTextChars,
                   h.flatRawToRaw, h.rawToFlatRaw)

\* handleSearchTextMatchIssues on the helpers of the text read
IssueIn(h, spans, message, searchPropName) ==
    handleSearchTextMatchIssues(spans, h.rawTextChars, h.flatRawText, h.rawToFlatRaw,
                                message, searchPropName)

SearchTrace(found) ==
    [op |-> "search", spans |-> found.spans, isExactMatch |-> found.isExactMatch]

\* searchTextAndReplace from const { spans, isExactMatch } = findMatchSpans(...)
SearchFound(status, text, p, actionAllMatches, read, h, found) ==
    IF ~found.isExactMatch \/ Len(found.spans) = 0
    THEN Outcome(IssueIn(h, found.spans, "noMatchFound", "searchText"),
                 read, status, text, SearchTrace(found))
    ELSE IF ~actionAllMatches /\ Len(found.spans) > 1
    THEN Outcome(IssueIn(h, found.spans, "multipleMatches", "searchText"),
                 read, status, text, SearchTrace(found))
    ELSE Outcome([Success(IF p.replacementText # << >> THEN "replaced" ELSE "deleted")
                     EXCEPT !.count = Len(found.spans)],
                 read \o <<"writeFile">>, status,
                 ReplaceLoop(h.rawTextChars, found.spans, Len(found.spans) - 1,
                             p.replacementText, text),
                 SearchTrace(found))

\* a searchTextAndReplace that takes a single match whatever the request asks
SearchReadSingleOnly(status, text, p, actionAllMatches, read, h) ==
    SearchFound(status, text, p, FALSE, read, h, FindIn(h, p.searchText))

\* searchTextAndReplace from the read of the file
SearchRead(status, text, p, actionAllMatches, read, h) ==
    SearchFound(status, text, p, actionAllMatches, read, h, FindIn(h, p.searchText))

searchTextAndReplace(status, text, p, actionAllMatches, validateReplaceText) ==
    LET fileValidation == validateTextFileToEdit(status, TRUE)
    IN
    IF ~fileValidation.success
    THEN Outcome(Failure(fileValidation.message), fileValidation.calls, status, text, NoTrace)
    ELSE IF validateReplaceText /\ p.searchText = p.replacementText
    THEN Outcome(Failure("identicalText"), fileValidation.calls, status, text, NoTrace)
    ELSE SearchRead(status, text, p, actionAllMatches,
                    fileValidation.calls \o <<"readFile">>,
                    buildFlatRawTextHelpers(Units(text)))

replaceMatchingTextImpl(status, text, p) ==
    searchTextAndReplace(status, text, p, p.replaceAllOccurrencesOfSearchText, TRUE)

deleteMatchingTextImpl(status, text, p) ==
    searchTextAndReplace(status, text,
        [searchText |-> p.searchText, replacementText |-> << >>],
        p.deleteAllOccurrencesOfSearchText, FALSE)


(***************************************************************************)
(* insert_text.                                                            *)
(***************************************************************************)
Null == [none |-> TRUE]
IsNull(x) == "none" \in DOMAIN x

\* a variant that always takes "\n"
DetectLineEndingLfOnly(rawText) == <<"LF">>

\* rawText.match(/\r\n|\n|\r/): the leftmost line terminator, "\n" when there is none
RECURSIVE DetectLineEnding(_)
DetectLineEnding(rawText) ==
    IF rawText = << >> THEN <<"LF">>
    ELSE IF Head(rawText) = "CR"
         THEN (IF Len(rawText) >= 2 /\ rawText[2] = "LF" THEN <<"CR", "LF">> ELSE <<"CR">>)
         ELSE IF Head(rawText) = "LF" THEN <<"LF">>
         ELSE DetectLineEnding(Tail(rawText))

InsertTrace(blockStartOffset, blockEndOffset, searchMatchesInBlock, insertionPoint, textToInsert) ==
    [op |-> "insert", blockStartOffset |-> blockStartOffset, blockEndOffset |-> blockEndOffset,
     anchorMatches |-> searchMatchesInBlock, insertionPoint |-> insertionPoint,
     textToInsert |-> textToInsert]

\* the trace of an insert that failed before the block was settled
NoInsertTrace == InsertTrace(-1, -1, << >>, -1, << >>)

BlockStartOffset(blockStartSpan) ==
    IF IsNull(blockStartSpan) THEN 0 ELSE blockStartSpan.rawStart

BlockEndOffset(blockEndSpan, rawTextChars) ==
    IF IsNull(blockEndSpan) THEN Len(rawTextChars) ELSE blockEndSpan.rawEndExclusive

\* the spans that lie within the block
MatchesInBlock(spans, blockStartOffset, blockEndOffset) ==
    SelectSeq(spans,
        LAMBDA s : s.rawStart >= blockStartOffset /\ s.rawEndExclusive <= blockEndOffset)

TextToInsert(p, lineEnding) ==
    IF p.addNewLine
    THEN (IF p.positionRelativeToAnchorText = "before"
          THEN p.textToBeInserted \o lineEnding
          ELSE lineEnding \o p.textToBeInserted)
    ELSE p.textToBeInserted

\* insertTextImpl from the search for the anchor: the matches that lie in the block,
\* the insertion point, the text and the write
InsertAnchor(status, text, p, read, h, blockStartOffset, blockEndOffset, allSearchMatches) ==
    LET isExactMatch == allSearchMatches.isExactMatch
        searchMatchesInBlock ==
            MatchesInBlock(allSearchMatches.spans, blockStartOffset, blockEndOffset)
        insertionPoint == IF p.positionRelativeToAnchorText = "before"
                          THEN searchMatchesInBlock[1].rawStart
                          ELSE searchMatchesInBlock[1].rawEndExclusive
        textToInsert == TextToInsert(p, DetectLineEnding(text))
    IN
    IF ~isExactMatch \/ Len(searchMatchesInBlock) = 0
    THEN Outcome(IssueIn(h, searchMatchesInBlock, "noMatchFound", "anchorText"),
                 read, status, text,
                 InsertTrace(blockStartOffset, blockEndOffset, searchMatchesInBlock, -1, << >>))
    ELSE IF Len(searchMatchesInBlock) > 1
    THEN Outcome(IssueIn(h, searchMatchesInBlock, "multipleMatches", "anchorText"),
                 read, status, text,
                 InsertTrace(blockStartOffset, blockEndOffset, searchMatchesInBlock, -1, << >>))
    ELSE Outcome(Success("inserted"), read \o <<"writeFile">>, status,
            replaceBySpan(h.rawTextChars,
                [rawStart |-> insertionPoint, rawEndExclusive |-> insertionPoint],
                textToInsert),
            InsertTrace(blockStartOffset, blockEndOffset, searchMatchesInBlock,
                        insertionPoint, textToInsert))

\* insertTextImpl from the search for the end marker; the filter
\* e.rawStart >= blockStartSpan.rawEndExclusive reads a field of null when no start
\* marker was given, and throws as soon as there is a span to test
InsertEndMarker(status, text, p, read, h, blockStartSpan, endMatches) ==
    LET validEndSpans == SelectSeq(endMatches.spans,
                             LAMBDA e : e.rawStart >= blockStartSpan.rawEndExclusive)
    IN
    IF p.anchorBlockEndMarker # << >> /\ IsNull(blockStartSpan) /\ Len(endMatches.spans) > 0
    THEN Outcome(Failure("unexpectedError"), read, status, text, NoInsertTrace)
    ELSE IF p.anchorBlockEndMarker # << >>
       /\ (~endMatches.isExactMatch \/ Len(validEndSpans) = 0)
    THEN Outcome(IssueIn(h, endMatches.spans, "noMatchFound", "anchorBlockEndMarker"),
                 read, status, text, NoInsertTrace)
    ELSE InsertAnchor(status, text, p, read, h,
            BlockStartOffset(blockStartSpan),
            BlockEndOffset(IF p.anchorBlockEndMarker # << >>
                           THEN validEndSpans[Len(validEndSpans)] ELSE Null,
                           h.rawTextChars),
            FindIn(h, p.anchorText))

\* insertTextImpl from the search for the start marker
InsertStartMarker(status, text, p, read, h, startMatches) ==
    IF p.anchorBlockStartMarker # << >>
       /\ (~startMatches.isExactMatch \/ Len(startMatches.spans) = 0)
    THEN Outcome(IssueIn(h, startMatches.spans, "noMatchFound", "anchorBlockStartMarker"),
                 read, status, text, NoInsertTrace)
    ELSE InsertEndMarker(status, text, p, read, h,
            IF p.anchorBlockStartMarker # << >> THEN startMatches.spans[1] ELSE Null,
            FindIn(h, p.anchorBlockEndMarker))

\* insertTextImpl from the read of the file
InsertRead(status, text, p, read, h) ==
    InsertStartMarker(status, text, p, read, h, FindIn(h, p.anchorBlockStartMarker))

insertTextImpl(status, text, p) ==
    LET fileValidation == validateTextFileToEdit(status, TRUE)
    IN
    IF ~fileValidation.success
    THEN Outcome(Failure(fileValidation.message), fileValidation.calls, status, text, NoTrace)
    ELSE InsertRead(status, text, p, fileValidation.calls \o <<"readFile">>,
                    buildFlatRawTextHelpers(Units(text)))


(***************************************************************************)
(* move_text.                                                              *)
(***************************************************************************)
\* a variant that leaves the line terminator where it is
expandEndLineBoundaryKeepsNewLine(rawTextChars, pos) == pos

RECURSIVE expandEndLineBoundaryToIncludeTrailingNewLine(_, _)
expandEndLineBoundaryToIncludeTrailingNewLine(rawTextChars, pos) ==
    IF pos < Len(rawTextChars) /\ CharAt(rawTextChars, pos) \in {"CR", "LF"}
    THEN expandEndLineBoundaryToIncludeTrailingNewLine(rawTextChars, pos + 1)
    ELSE pos

\* a variant that takes only "\n" for a line boundary
isPosLineBoundaryLfOnly(rawTextChars, pos) == CharAt(rawTextChars, pos) = "LF"

isPosLineBoundary(rawTextChars, pos) == CharAt(rawTextChars, pos) \in {"LF", "CR"}

RECURSIVE LineBoundaryLeftLoop(_, _)
LineBoundaryLeftLoop(rawTextChars, start) ==
    LET hasStartReachedLineBoundary == start = 0 \/ isPosLineBoundary(rawTextChars, start - 1)
    IN  IF ~hasStartReachedLineBoundary /\ IsWhiteSpace(CharAt(rawTextChars, start - 1))
        THEN LineBoundaryLeftLoop(rawTextChars, start - 1)
        ELSE IF hasStartReachedLineBoundary THEN start ELSE -1

findLineBoundaryToLeft(rawTextChars, span) == LineBoundaryLeftLoop(rawTextChars, span.rawStart)

RECURSIVE LineBoundaryRightLoop(_, _)
LineBoundaryRightLoop(rawTextChars, end) ==
    LET hasEndReachedLineBoundary ==
            end = Len(rawTextChars) \/ isPosLineBoundary(rawTextChars, end)
    IN  IF ~hasEndReachedLineBoundary /\ IsWhiteSpace(CharAt(rawTextChars, end))
        THEN LineBoundaryRightLoop(rawTextChars, end + 1)
        ELSE IF hasEndReachedLineBoundary THEN end ELSE -1

findLineBoundaryToRight(rawTextChars, span) ==
    LineBoundaryRightLoop(rawTextChars, span.rawEndExclusive)

MoveTrace(moveSpan, blockStartOffset, blockEndOffset, anchorMatchesInBlock, isLineBoundaryMove, deletionSpan, insertionPoint, textToMove) ==
    [op |-> "move", moveSpan |-> moveSpan,
     blockStartOffset |-> blockStartOffset, blockEndOffset |-> blockEndOffset,
     anchorMatches |-> anchorMatchesInBlock, isLineBoundaryMove |-> isLineBoundaryMove,
     deletionSpan |-> deletionSpan, insertionPoint |-> insertionPoint,
     textToMove |-> textToMove]

NoSpan == [rawStart |-> -1, rawEndExclusive |-> -1]

\* the trace of a move that failed before line-boundary mode was decided
EarlyMoveTrace(moveSpan, blockStartOffset, blockEndOffset, anchorMatchesInBlock) ==
    MoveTrace(moveSpan, blockStartOffset, blockEndOffset, anchorMatchesInBlock, FALSE,
              NoSpan, -1, << >>)

\* a variant that, for a move of lines, puts down the line ending alone
TextToMoveLineEndingOnly(p, isLineBoundaryMove, sliced, lineEnding) ==
    IF isLineBoundaryMove THEN lineEnding ELSE sliced

\* a variant that joins a line ending to the text in either mode
TextToMoveWithLineEnding(p, isLineBoundaryMove, sliced, lineEnding) ==
    IF p.positionRelativeToAnchorText = "before"
    THEN sliced \o lineEnding ELSE lineEnding \o sliced

TextToMove(p, isLineBoundaryMove, sliced, lineEnding) ==
    IF isLineBoundaryMove
    THEN (IF p.positionRelativeToAnchorText = "before"
          THEN sliced \o lineEnding ELSE lineEnding \o sliced)
    ELSE sliced

\* a variant that also turns down an insertion point at either end of the deletion span
MoveSettledClosedOverlap(status, text, read, rawTextChars, moveSpan, blockStartOffset, blockEndOffset, anchorMatchesInBlock, isLineBoundaryMove, deletionSpan, insertionPoint, textToMove) ==
    LET full == MoveTrace(moveSpan, blockStartOffset, blockEndOffset, anchorMatchesInBlock,
                          isLineBoundaryMove, deletionSpan, insertionPoint, textToMove)
    IN
    IF insertionPoint >= deletionSpan.rawStart /\ insertionPoint <= deletionSpan.rawEndExclusive
    THEN Outcome(Failure("overlap"), read, status, text, full)
    ELSE Outcome(Success("moved"), read \o <<"writeFile">>, status,
            Splice(Splice(rawTextChars, deletionSpan.rawStart,
                          deletionSpan.rawEndExclusive - deletionSpan.rawStart, << >>),
                   IF insertionPoint <= deletionSpan.rawStart THEN insertionPoint
                   ELSE insertionPoint - (deletionSpan.rawEndExclusive - deletionSpan.rawStart),
                   0, ArrayFrom(Units(textToMove))),
            full)

\* moveTextImpl once the deletion span, the insertion point and the text are settled:
\* the overlap check and the write
MoveSettled(status, text, read, rawTextChars, moveSpan, blockStartOffset, blockEndOffset, anchorMatchesInBlock, isLineBoundaryMove, deletionSpan, insertionPoint, textToMove) ==
    LET full == MoveTrace(moveSpan, blockStartOffset, blockEndOffset, anchorMatchesInBlock,
                          isLineBoundaryMove, deletionSpan, insertionPoint, textToMove)
    IN
    IF insertionPoint > deletionSpan.rawStart /\ insertionPoint < deletionSpan.rawEndExclusive
    THEN Outcome(Failure("overlap"), read, status, text, full)
    ELSE Outcome(Success("moved"), read \o <<"writeFile">>, status,
            Splice(Splice(rawTextChars, deletionSpan.rawStart,
                          deletionSpan.rawEndExclusive - deletionSpan.rawStart, << >>),
                   IF insertionPoint <= deletionSpan.rawStart THEN insertionPoint
                   ELSE insertionPoint - (deletionSpan.rawEndExclusive - deletionSpan.rawStart),
                   0, ArrayFrom(Units(textToMove))),
            full)

\* moveTextImpl from the four line-boundary positions: the mode, the deletion span,
\* the insertion point and the text to move
MoveBoundaries(status, text, p, read, rawTextChars, moveSpan, blockStartOffset, blockEndOffset, anchorMatchesInBlock, moveSpanLineBoundaryStartPos, moveSpanLineBoundaryEndPos, anchorSpanLineBoundaryStartPos, anchorSpanLineBoundaryEndPos) ==
    LET isLineBoundaryMove ==
            moveSpanLineBoundaryStartPos >= 0 /\ moveSpanLineBoundaryEndPos >= 0
            /\ (IF p.positionRelativeToAnchorText = "before"
                THEN anchorSpanLineBoundaryStartPos >= 0
                ELSE anchorSpanLineBoundaryEndPos >= 0)
    IN
    MoveSettled(status, text, read, rawTextChars, moveSpan, blockStartOffset, blockEndOffset,
        anchorMatchesInBlock, isLineBoundaryMove,
        [rawStart |-> IF isLineBoundaryMove THEN moveSpanLineBoundaryStartPos
                      ELSE moveSpan.rawStart,
         rawEndExclusive |->
             IF isLineBoundaryMove
             THEN expandEndLineBoundaryToIncludeTrailingNewLine(
                      rawTextChars, moveSpanLineBoundaryEndPos)
             ELSE moveSpan.rawEndExclusive],
        IF p.positionRelativeToAnchorText = "before"
        THEN (IF isLineBoundaryMove THEN anchorSpanLineBoundaryStartPos
              ELSE anchorMatchesInBlock[1].rawStart)
        ELSE (IF isLineBoundaryMove THEN anchorSpanLineBoundaryEndPos
              ELSE anchorMatchesInBlock[1].rawEndExclusive),
        TextToMove(p, isLineBoundaryMove,
            sliceBySpan(rawTextChars,
                [rawStart |-> IF isLineBoundaryMove THEN moveSpanLineBoundaryStartPos
                              ELSE moveSpan.rawStart,
                 rawEndExclusive |-> IF isLineBoundaryMove THEN moveSpanLineBoundaryEndPos
                                     ELSE moveSpan.rawEndExclusive]),
            DetectLineEnding(text)))

\* moveTextImpl from the search for the anchor: the matches that lie in the block
MoveAnchor(status, text, p, read, h, moveSpan, blockStartOffset, blockEndOffset, allAnchorMatches) ==
    LET isExactMatch == allAnchorMatches.isExactMatch
        anchorMatchesInBlock ==
            MatchesInBlock(allAnchorMatches.spans, blockStartOffset, blockEndOffset)
    IN
    IF ~isExactMatch \/ Len(anchorMatchesInBlock) = 0
    THEN Outcome(IssueIn(h, anchorMatchesInBlock, "noMatchFound", "anchorText"),
                 read, status, text,
                 EarlyMoveTrace(moveSpan, blockStartOffset, blockEndOffset,
                                anchorMatchesInBlock))
    ELSE IF Len(anchorMatchesInBlock) > 1
    THEN Outcome(IssueIn(h, anchorMatchesInBlock, "multipleMatches", "anchorText"),
                 read, status, text,
                 EarlyMoveTrace(moveSpan, blockStartOffset, blockEndOffset,
                                anchorMatchesInBlock))
    ELSE MoveBoundaries(status, text, p, read, h.rawTextChars, moveSpan,
            blockStartOffset, blockEndOffset, anchorMatchesInBlock,
            findLineBoundaryToLeft(h.rawTextChars, moveSpan),
            findLineBoundaryToRight(h.rawTextChars, moveSpan),
            findLineBoundaryToLeft(h.rawTextChars, anchorMatchesInBlock[1]),
            findLineBoundaryToRight(h.rawTextChars, anchorMatchesInBlock[1]))

\* moveTextImpl from the search for the end marker; the filter skips the comparison
\* when there is no start span
MoveEndMarker(status, text, p, read, h, moveSpan, blockStartSpan, endMatches) ==
    LET validEndSpans ==
            SelectSeq(endMatches.spans,
                LAMBDA e : IsNull(blockStartSpan)
                           \/ e.rawStart >= blockStartSpan.rawEndExclusive)
    IN
    IF p.anchorBlockEndMarker # << >>
       /\ (~endMatches.isExactMatch \/ Len(validEndSpans) = 0)
    THEN Outcome(IssueIn(h, endMatches.spans, "noMatchFound", "anchorBlockEndMarker"),
                 read, status, text, EarlyMoveTrace(moveSpan, -1, -1, << >>))
    ELSE MoveAnchor(status, text, p, read, h, moveSpan,
            BlockStartOffset(blockStartSpan),
            BlockEndOffset(IF p.anchorBlockEndMarker # << >>
                           THEN validEndSpans[Len(validEndSpans)] ELSE Null,
                           h.rawTextChars),
            FindIn(h, p.anchorText))

\* moveTextImpl from the search for the start marker
MoveStartMarker(status, text, p, read, h, moveSpan, startMatches) ==
    IF p.anchorBlockStartMarker # << >>
       /\ (~startMatches.isExactMatch \/ Len(startMatches.spans) = 0)
    THEN Outcome(IssueIn(h, startMatches.spans, "noMatchFound", "anchorBlockStartMarker"),
                 read, status, text, EarlyMoveTrace(moveSpan, -1, -1, << >>))
    ELSE MoveEndMarker(status, text, p, read, h, moveSpan,
            IF p.anchorBlockStartMarker # << >> THEN startMatches.spans[1] ELSE Null,
            FindIn(h, p.anchorBlockEndMarker))

\* moveTextImpl from the search for the text to move
MoveMatches(status, text, p, read, h, allMoveMatches) ==
    IF ~allMoveMatches.isExactMatch \/ Len(allMoveMatches.spans) = 0
    THEN Outcome(IssueIn(h, allMoveMatches.spans, "noMatchFound", "textToBeMoved"),
                 read, status, text, EarlyMoveTrace(NoSpan, -1, -1, << >>))
    ELSE IF Len(allMoveMatches.spans) > 1
    THEN Outcome(IssueIn(h, allMoveMatches.spans, "multipleMatches", "textToBeMoved"),
                 read, status, text, EarlyMoveTrace(NoSpan, -1, -1, << >>))
    ELSE MoveStartMarker(status, text, p, read, h, allMoveMatches.spans[1],
                         FindIn(h, p.anchorBlockStartMarker))

\* moveTextImpl from the read of the file
MoveRead(status, text, p, read, h) ==
    MoveMatches(status, text, p, read, h, FindIn(h, p.textToBeMoved))

moveTextImpl(status, text, p) ==
    LET fileValidation == validateTextFileToEdit(status, TRUE)
    IN
    IF ~fileValidation.success
    THEN Outcome(Failure(fileValidation.message), fileValidation.calls, status, text, NoTrace)
    ELSE MoveRead(status, text, p, fileValidation.calls \o <<"readFile">>,
                  buildFlatRawTextHelpers(Units(text)))


(***************************************************************************)
(* The operators that do not search.  tgt is the state of the path that    *)
(* targetFilePath names: whether its directory and the file itself exist.  *)
(***************************************************************************)
\* a variant that writes the file before it reports that the file exists
createFileImplWritesFirst(status, text, dir, p) ==
    LET dirCalls == IF dir THEN <<"existsSync">>
                    ELSE IF p.createMissingDirectories THEN <<"existsSync", "mkdirSync">>
                    ELSE <<"existsSync">>
    IN  IF ~dir /\ ~p.createMissingDirectories
        THEN [result |-> Failure("directoryMissing"), calls |-> dirCalls,
              fstatus |-> status, content |-> text, dirExists |-> dir]
        ELSE IF status # "missing"
        THEN [result |-> Failure("fileAlreadyExists"),
              calls |-> dirCalls \o <<"writeFile", "existsSync">>,
              fstatus |-> "ok", content |-> p.fileContent, dirExists |-> TRUE]
        ELSE [result |-> Success("created"),
              calls |-> dirCalls \o <<"existsSync", "writeFile">>,
              fstatus |-> "ok", content |-> p.fileContent, dirExists |-> TRUE]

createFileImpl(status, text, dir, p) ==
    LET dirCalls == IF dir THEN <<"existsSync">>
                    ELSE IF p.createMissingDirectories THEN <<"existsSync", "mkdirSync">>
                    ELSE <<"existsSync">>
    IN  IF ~dir /\ ~p.createMissingDirectories
        THEN [result |-> Failure("directoryMissing"), calls |-> dirCalls,
              fstatus |-> status, content |-> text, dirExists |-> dir]
        ELSE IF status # "missing"
        THEN [result |-> Failure("fileAlreadyExists"), calls |-> dirCalls \o <<"existsSync">>,
              fstatus |-> status, content |-> text, dirExists |-> TRUE]
        ELSE [result |-> Success("created"),
              calls |-> dirCalls \o <<"existsSync", "writeFile">>,
              fstatus |-> "ok", content |-> p.fileContent, dirExists |-> TRUE]

overwriteFileContentImpl(status, text, p) ==
    LET fileValidation == validateTextFileToEdit(status, TRUE)
    IN  IF ~fileValidation.success
        THEN Outcome(Failure(fileValidation.message), fileValidation.calls, status, text, NoTrace)
        ELSE Outcome(Success("overwritten"), fileValidation.calls \o <<"writeFile">>,
                     status, p.fileContent, NoTrace)

\* String.prototype.endsWith
EndsWith(text, suffix) ==
    Len(suffix) <= Len(text) /\ SubSeq(text, Len(text) - Len(suffix) + 1, Len(text)) = suffix

appendTextToFileImpl(status, text, p) ==
    LET fileValidation == validateTextFileToEdit(status, TRUE)
        lineEnding == DetectLineEnding(text)
        withLine == IF p.addNewLineBeforeAppending /\ ~EndsWith(text, lineEnding)
                    THEN text \o lineEnding ELSE text
    IN  IF ~fileValidation.success
        THEN Outcome(Failure(fileValidation.message), fileValidation.calls, status, text, NoTrace)
        ELSE Outcome(Success("appended"),
                     fileValidation.calls \o <<"readFile", "writeFile">>,
                     status, withLine \o p.appendText, NoTrace)

\* a variant that renames without asking whether the target is there
moveOrRenameFileImplOverTarget(status, text, tgt, p) ==
    LET dirCalls == IF tgt.dirExists THEN <<"existsSync">>
                    ELSE IF p.createMissingDirectories THEN <<"existsSync", "mkdirSync">>
                    ELSE <<"existsSync">>
        Same(result, calls) ==
            [result |-> result, calls |-> calls, fstatus |-> status, content |-> text,
             target |-> tgt]
    IN  IF status = "missing"
        THEN Same(Failure("fileNotExist"), <<"existsSync">>)
        ELSE IF ~tgt.dirExists /\ ~p.createMissingDirectories
        THEN Same(Failure("directoryMissing"), <<"existsSync">> \o dirCalls)
        ELSE [result |-> Success("renamed"),
              calls |-> <<"existsSync">> \o dirCalls \o <<"rename">>,
              fstatus |-> "missing", content |-> << >>,
              target |-> [exists |-> TRUE, dirExists |-> TRUE]]

moveOrRenameFileImpl(status, text, tgt, p) ==
    LET dirCalls == IF tgt.dirExists THEN <<"existsSync">>
                    ELSE IF p.createMissingDirectories THEN <<"existsSync", "mkdirSync">>
                    ELSE <<"existsSync">>
        Same(result, calls) ==
            [result |-> result, calls |-> calls, fstatus |-> status, content |-> text,
             target |-> tgt]
    IN  IF status = "missing"
        THEN Same(Failure("fileNotExist"), <<"existsSync">>)
        ELSE IF tgt.exists
        THEN Same(Failure("targetPathExists"), <<"existsSync", "existsSync">>)
        ELSE IF ~tgt.dirExists /\ ~p.createMissingDirectories
        THEN Same(Failure("directoryMissing"), <<"existsSync", "existsSync"
                                                 >> \o dirCalls)
        ELSE [result |-> Success("renamed"),
              calls |-> <<"existsSync", "existsSync">> \o dirCalls \o <<"rename">>,
              fstatus |-> "missing", content |-> << >>,
              target |-> [exists |-> TRUE, dirExists |-> TRUE]]

deleteFileImpl(status, text) ==
    LET fileValidation == validateTextFileToEdit(status, FALSE)
    IN  IF ~fileValidation.success
        THEN Outcome(Failure(fileValidation.message), fileValidation.calls, status, text, NoTrace)
        ELSE Outcome(Success("fileDeleted"), fileValidation.calls \o <<"unlink">>,
                     "missing", << >>, NoTrace)


(***************************************************************************)
(* The inputs of the model.                                                *)
(***************************************************************************)
RECURSIVE SeqsOfLen(_, _)
SeqsOfLen(S, n) ==
    IF n = 0 THEN {<< >>}
    ELSE {Append(q, c) : q \in SeqsOfLen(S, n - 1), c \in S}

SeqsUpTo(S, n) == UNION {SeqsOfLen(S, k) : k \in 0 .. n}

\* texts of three or four one-letter tokens, a space between them
TokenTexts ==
    {<<t[1], "SP", t[2], "SP", t[3]>> : t \in SeqsOfLen(Letters, 3)}
        \cup {<<t[1], "SP", t[2], "SP", t[3], "SP", t[4]>> : t \in SeqsOfLen(Letters, 4)}

Files ==
    SeqsUpTo(Letters, MaxFileLen)
        \cup SeqsUpTo(Letters \cup {"SP", "LF"}, MaxMidLen)
        \cup SeqsUpTo(Scalars, MaxWideLen)
        \cup TokenTexts
        \cup {[i \in 1 .. MaxFileLen + 1 |-> "b"]}
        \cup {<<"SP", "U", "a", "a">>}

\* a string that most files of the model contain only in part
PartialText == <<"a", "a", "b", "b">>

\* a string whose middle, "bbb", neither starts nor ends it
MidText == <<"a", "b", "b", "b", "a">>

\* a string that begins outside the basic plane
AstralText == <<"U", "a", "b", "b">>

\* what a request may search for
SearchTexts ==
    {<< >>, <<"a">>, <<"b">>, <<"a", "a">>, <<"a", "b">>, <<"a", "SP", "b">>, <<"SP">>,
     <<"U">>, PartialText, MidText, AstralText}

AnchorTexts == {<<"a">>, <<"a", "b">>, PartialText}
MovedTexts == {<<"b">>, <<"a", "b">>, PartialText}

\* an optional marker; the empty string is "not given" (if (p.anchorBlockStartMarker))
StartMarkers == {<< >>, <<"a">>, <<"b">>, PartialText}
EndMarkers == {<< >>, <<"b">>, PartialText}

NewTexts == {<< >>, <<"a">>, <<"b">>, <<"b", "SP">>}

Positions == {"before", "after"}

NoRequest == [op |-> "none"]
NoResult == [success |-> FALSE, message |-> "none", param |-> "", count |-> 0,
             hasSuggestions |-> FALSE, SuggestedParameterValues |-> << >>]
Before == [fstatus |-> fstatus, content |-> content, dirExists |-> dirExists]
NoBefore == [fstatus |-> "none", content |-> << >>, dirExists |-> TRUE]

\* what a request's targetFilePath may name: nothing yet, nothing in a directory that
\* does not exist either, or something that is already there
TargetStates ==
    {[exists |-> FALSE, dirExists |-> TRUE], [exists |-> FALSE, dirExists |-> FALSE],
     [exists |-> TRUE, dirExists |-> TRUE]}

Init ==
    /\ pc = "idle"
    /\ \/ fstatus = "ok" /\ content \in Files /\ dirExists = TRUE
       \/ fstatus \in {"noaccess", "binary"} /\ content = <<"a", "SP", "a">> /\ dirExists = TRUE
       \/ fstatus = "missing" /\ content = << >> /\ dirExists \in BOOLEAN
    /\ req = NoRequest
    /\ resp = NoResult
    /\ prev = NoBefore
    /\ fsCalls = << >>
    /\ trace = NoTrace

(***************************************************************************)
(* The tools.  Serve is the registered callback: it runs the               *)
(* implementation to its end and hands back what it returned.              *)
(***************************************************************************)
Serve(request, out) ==
    /\ pc = "idle"
    /\ pc' = "done"
    /\ req' = request
    /\ resp' = out.result
    /\ prev' = Before
    /\ fsCalls' = out.calls
    /\ fstatus' = out.fstatus
    /\ content' = out.content

\* the callback of a tool that searches: what the search resolved is kept for the record
ServeSearch(request, out) == Serve(request, out) /\ trace' = out.trace

ReplaceMatchingText ==
    \E s \in SearchTexts, r \in {<< >>, <<"a">>, <<"b">>, <<"a", "a">>}, all \in BOOLEAN :
        LET p == [op |-> "replace_matching_text", searchText |-> s, replacementText |-> r,
                  replaceAllOccurrencesOfSearchText |-> all]
        IN  ServeSearch(p, replaceMatchingTextImpl(fstatus, content, p)) /\ UNCHANGED dirExists

DeleteMatchingText ==
    \E s \in SearchTexts, all \in BOOLEAN :
        LET p == [op |-> "delete_matching_text", searchText |-> s,
                  deleteAllOccurrencesOfSearchText |-> all]
        IN  ServeSearch(p, deleteMatchingTextImpl(fstatus, content, p)) /\ UNCHANGED dirExists

InsertText ==
    \E a \in AnchorTexts, sm \in StartMarkers, em \in EndMarkers, pos \in Positions,
       nl \in BOOLEAN, t \in {<<"b">>} :
        LET p == [op |-> "insert_text", textToBeInserted |-> t, anchorText |-> a,
                  positionRelativeToAnchorText |-> pos, anchorBlockStartMarker |-> sm,
                  anchorBlockEndMarker |-> em, addNewLine |-> nl]
        IN  ServeSearch(p, insertTextImpl(fstatus, content, p)) /\ UNCHANGED dirExists

MoveText ==
    \E m \in MovedTexts, a \in {<<"a">>, <<"b">>, PartialText},
       sm \in {<< >>, <<"a">>}, em \in EndMarkers, pos \in Positions :
        LET p == [op |-> "move_text", textToBeMoved |-> m, anchorText |-> a,
                  positionRelativeToAnchorText |-> pos, anchorBlockStartMarker |-> sm,
                  anchorBlockEndMarker |-> em]
        IN  ServeSearch(p, moveTextImpl(fstatus, content, p)) /\ UNCHANGED dirExists

CreateFile ==
    \E c \in NewTexts, mk \in BOOLEAN :
        LET p == [op |-> "create_file", fileContent |-> c, createMissingDirectories |-> mk]
            out == createFileImpl(fstatus, content, dirExists, p)
        IN  Serve(p, out) /\ trace' = NoTrace /\ dirExists' = out.dirExists

OverwriteFileContent ==
    \E c \in NewTexts :
        LET p == [op |-> "overwrite_file_content", fileContent |-> c]
            out == overwriteFileContentImpl(fstatus, content, p)
        IN  Serve(p, out) /\ trace' = NoTrace /\ UNCHANGED dirExists

AppendTextToFile ==
    \E t \in NewTexts, nl \in BOOLEAN :
        LET p == [op |-> "append_text_to_file", appendText |-> t,
                  addNewLineBeforeAppending |-> nl]
            out == appendTextToFileImpl(fstatus, content, p)
        IN  Serve(p, out) /\ trace' = NoTrace /\ UNCHANGED dirExists

MoveOrRenameFile ==
    \E mk \in BOOLEAN, tgt \in TargetStates :
        LET p == [op |-> "move_or_rename_file", createMissingDirectories |-> mk]
            out == moveOrRenameFileImpl(fstatus, content, tgt, p)
        IN  Serve(p, out)
            /\ trace' = [op |-> "rename", targetBefore |-> tgt, targetAfter |-> out.target]
            /\ UNCHANGED dirExists

DeleteFile ==
    LET p == [op |-> "delete_file"]
        out == deleteFileImpl(fstatus, content)
    IN  Serve(p, out) /\ trace' = NoTrace /\ UNCHANGED dirExists

\* the response is sent; the server waits for the next request
Return ==
    /\ pc = "done"
    /\ content \in Files
    /\ pc' = "idle"
    /\ req' = NoRequest
    /\ resp' = NoResult
    /\ prev' = NoBefore
    /\ fsCalls' = << >>
    /\ trace' = NoTrace
    /\ UNCHANGED <<fstatus, content, dirExists>>

Next ==
    \/ ReplaceMatchingText
    \/ DeleteMatchingText
    \/ InsertText
    \/ MoveText
    \/ CreateFile
    \/ OverwriteFileContent
    \/ AppendTextToFile
    \/ MoveOrRenameFile
    \/ DeleteFile
    \/ Return

Spec == Init /\ [][Next]_vars


(***************************************************************************)
(* The vocabulary of the properties.  An occurrence is what the            *)
(* specification calls one: a place where the whitespace-stripped search   *)
(* string stands in the whitespace-stripped text, both read as scalars;    *)
(* its span runs from its first to its last non-whitespace scalar.         *)
(***************************************************************************)
Stripped(R) == SelectSeq(R, LAMBDA c : c \notin WhiteSpaceScalars)

\* the raw indices (0-based) of the non-whitespace scalars of R, in order
NonWsIndices(R) ==
    SelectSeq([i \in 1 .. Len(R) |-> i - 1], LAMBDA i : R[i + 1] \notin WhiteSpaceScalars)

\* where, in the stripped text, the stripped search string starts (0-based)
OccurrenceStarts(R, s) ==
    LET F == Stripped(R)
        S == Stripped(s)
    IN  IF S = << >> THEN {}
        ELSE {i \in 0 .. Len(F) - Len(S) : SubSeq(F, i + 1, i + Len(S)) = S}

OccurrenceSpan(R, s, i) ==
    [rawStart |-> NonWsIndices(R)[i + 1],
     rawEndExclusive |-> NonWsIndices(R)[i + Len(Stripped(s))] + 1]

OccurrenceSpans(R, s) == {OccurrenceSpan(R, s, i) : i \in OccurrenceStarts(R, s)}

\* R with the scalars of [from, to) replaced by new
Spliced(R, from, to, new) == SubSeq(R, 1, from) \o new \o SubSeq(R, to + 1, Len(R))

\* text of the basic plane: every scalar is one code unit
BasicPlane(R) == \A i \in 1 .. Len(R) : R[i] \notin Astral

Range(q) == {q[i] : i \in 1 .. Len(q)}

\* a request was served on a readable, writable text file
ServedOnTextFile(op) == pc = "done" /\ req.op = op /\ prev.fstatus = "ok"

(***************************************************************************)
(* C1.  replace_matching_text with all = false, on a file whose stripped   *)
(* text contains the stripped searchText exactly once, succeeds and writes *)
(* R[0..rawStart) + replacementText + R[rawEndExcl..|R|), the span being   *)
(* that of the occurrence.  (Read for a replacementText that differs from  *)
(* searchText: the request is otherwise turned down before any search.)    *)
(***************************************************************************)
C1_SingleReplace ==
    (/\ ServedOnTextFile("replace_matching_text")
     /\ ~req.replaceAllOccurrencesOfSearchText
     /\ req.searchText # req.replacementText
     /\ Cardinality(OccurrenceStarts(prev.content, req.searchText)) = 1)
    => LET span == CHOOSE sp \in OccurrenceSpans(prev.content, req.searchText) : TRUE
       IN  /\ resp.success
           /\ content = Spliced(prev.content, span.rawStart, span.rawEndExclusive,
                                req.replacementText)

\* "a" replaced by "b" in a file that holds an astral scalar and then "a": the "a" stays
C1_Observed ==
    /\ ServedOnTextFile("replace_matching_text")
    /\ ~req.replaceAllOccurrencesOfSearchText
    /\ prev.content = <<"U", "a">>
    /\ req.searchText = <<"a">>
    /\ req.replacementText = <<"b">>
    /\ resp.success
    /\ content = <<"U", "a", "b">>

(***************************************************************************)
(* C2.  With all = true, a replace or delete on a file with k >= 1         *)
(* non-overlapping occurrences of searchText succeeds, replaces every one  *)
(* of the k occurrences and reports the count k, for any k.  (Stated for    *)
(* text of the basic plane.)                                               *)
(***************************************************************************)
NonOverlapping(spans) ==
    \A x \in spans, y \in spans :
        x = y \/ x.rawEndExclusive <= y.rawStart \/ y.rawEndExclusive <= x.rawStart

\* every span of the set replaced by new, the rightmost first
RECURSIVE ReplacedAll(_, _, _)
ReplacedAll(R, spans, new) ==
    IF spans = {} THEN R
    ELSE LET last == CHOOSE x \in spans : \A y \in spans : y.rawStart <= x.rawStart
         IN  ReplacedAll(Spliced(R, last.rawStart, last.rawEndExclusive, new),
                         spans \ {last}, new)

C2_AllOccurrences ==
    \A op \in {"replace_matching_text", "delete_matching_text"} :
        LET all == IF op = "replace_matching_text"
                   THEN req.replaceAllOccurrencesOfSearchText
                   ELSE req.deleteAllOccurrencesOfSearchText
            new == IF op = "replace_matching_text" THEN req.replacementText ELSE << >>
            spans == OccurrenceSpans(prev.content, req.searchText)
        IN  (/\ ServedOnTextFile(op)
             /\ all
             /\ req.searchText # new
             /\ BasicPlane(prev.content)
             /\ spans # {}
             /\ NonOverlapping(spans))
            => /\ resp.success
               /\ resp.count = Cardinality(spans)
               /\ content = ReplacedAll(prev.content, spans, new)


\* every "a" of "aaaa" was to become "b": the fourth stays, the count reported is 3
C2_Observed ==
    /\ ServedOnTextFile("replace_matching_text")
    /\ req.replaceAllOccurrencesOfSearchText
    /\ prev.content = <<"a", "a", "a", "a">>
    /\ req.searchText = <<"a">>
    /\ req.replacementText = <<"b">>
    /\ resp.success
    /\ resp.count = 3
    /\ content = <<"b", "b", "b", "a">>

(***************************************************************************)
(* C3.  A replace or delete with all = false on a file with two or more    *)
(* occurrences of searchText fails with the multiple-matches error, writes *)
(* nothing, and returns one suggestion per reported match, in match order, *)
(* each keyed by searchText.                                               *)
(***************************************************************************)
\* text is a slice of R that contains what the span holds of R
CoversSpan(R, text, span) ==
    \E from \in 0 .. Min(span.rawStart, Len(R)),
       to \in Min(span.rawEndExclusive, Len(R)) .. Len(R) :
        text = Slice(R, from, to)

MultipleMatchesReported ==
    LET suggestions == resp.SuggestedParameterValues
    IN  /\ ~resp.success
        /\ resp.message = "multipleMatches"
        /\ content = prev.content
        /\ "writeFile" \notin Range(fsCalls)
        /\ trace.isExactMatch
        /\ Len(trace.spans) >= 2
        /\ Len(suggestions) = Len(trace.spans)
        /\ \A k \in 1 .. Len(trace.spans) - 1 :
               trace.spans[k].flatStart < trace.spans[k + 1].flatStart
        /\ \A k \in 1 .. Len(suggestions) :
               /\ DOMAIN suggestions[k] = {"searchText"}
               /\ CoversSpan(prev.content, suggestions[k].searchText, trace.spans[k])

\* as stated: for every replace and every delete
C3_MultipleMatches ==
    /\ (/\ ServedOnTextFile("replace_matching_text")
        /\ ~req.replaceAllOccurrencesOfSearchText
        /\ Cardinality(OccurrenceStarts(prev.content, req.searchText)) >= 2)
       => MultipleMatchesReported
    /\ (/\ ServedOnTextFile("delete_matching_text")
        /\ ~req.deleteAllOccurrencesOfSearchText
        /\ Cardinality(OccurrenceStarts(prev.content, req.searchText)) >= 2)
       => MultipleMatchesReported

\* C3, for a replace whose replacementText differs from searchText, and for every delete
C3_MultipleMatchesDistinctText ==
    /\ (/\ ServedOnTextFile("replace_matching_text")
        /\ ~req.replaceAllOccurrencesOfSearchText
        /\ req.searchText # req.replacementText
        /\ Cardinality(OccurrenceStarts(prev.content, req.searchText)) >= 2)
       => MultipleMatchesReported
    /\ (/\ ServedOnTextFile("delete_matching_text")
        /\ ~req.deleteAllOccurrencesOfSearchText
        /\ Cardinality(OccurrenceStarts(prev.content, req.searchText)) >= 2)
       => MultipleMatchesReported

\* a replace of "a b" was turned down: the file holds it twice, spaced differently
C3_Witness ==
    /\ ServedOnTextFile("replace_matching_text")
    /\ ~req.replaceAllOccurrencesOfSearchText
    /\ req.searchText = <<"a", "SP", "b">>
    /\ req.replacementText = <<"b">>
    /\ Cardinality(OccurrenceStarts(prev.content, req.searchText)) = 2
    /\ resp.message = "multipleMatches"
    /\ Len(resp.SuggestedParameterValues) = 2


(***************************************************************************)
(* C4.  Whenever a searched string (searchText, anchorText, textToBeMoved, *)
(* a block marker) has no exact match, the operation fails with the        *)
(* no-match error and SuggestedParameterValues holds at most 3 entries,    *)
(* each keyed by the name of the parameter searched.  (Read for the first  *)
(* string the operation searches that has no occurrence, everything        *)
(* searched before it having been resolved.)                               *)
(***************************************************************************)
NoOccurrence(s) == OccurrenceStarts(prev.content, s) = {}
Given(marker) == marker # << >>

NoMatchReported(names) ==
    /\ ~resp.success
    /\ resp.message = "noMatchFound"
    /\ resp.param \in names
    /\ Len(resp.SuggestedParameterValues) <= 3
    /\ \A k \in 1 .. Len(resp.SuggestedParameterValues) :
           DOMAIN resp.SuggestedParameterValues[k] = {resp.param}

C4_NoMatch ==
    /\ (/\ ServedOnTextFile("replace_matching_text")
        /\ req.searchText # req.replacementText
        /\ NoOccurrence(req.searchText))
       => NoMatchReported({"searchText"})
    /\ (ServedOnTextFile("delete_matching_text") /\ NoOccurrence(req.searchText))
       => NoMatchReported({"searchText"})
    /\ (/\ ServedOnTextFile("insert_text") \/ ServedOnTextFile("move_text")
        /\ ServedOnTextFile("move_text")
               => Cardinality(OccurrenceStarts(prev.content, req.textToBeMoved)) = 1)
       => /\ (Given(req.anchorBlockStartMarker) /\ NoOccurrence(req.anchorBlockStartMarker))
              => NoMatchReported({"anchorBlockStartMarker"})
          /\ (/\ ~Given(req.anchorBlockStartMarker) \/ ~NoOccurrence(req.anchorBlockStartMarker)
              /\ Given(req.anchorBlockEndMarker)
              /\ NoOccurrence(req.anchorBlockEndMarker))
              => NoMatchReported({"anchorBlockEndMarker"})
          /\ (/\ ~Given(req.anchorBlockStartMarker)
              /\ ~Given(req.anchorBlockEndMarker)
              /\ NoOccurrence(req.anchorText))
              => NoMatchReported({"anchorText"})
    /\ (ServedOnTextFile("move_text") /\ NoOccurrence(req.textToBeMoved))
       => NoMatchReported({"textToBeMoved"})

\* the end marker, given alone, has no occurrence but a partial one: no no-match error
C4_Observed ==
    /\ ServedOnTextFile("insert_text")
    /\ prev.content = <<"a", "a", "b">>
    /\ req.anchorText = <<"a">>
    /\ req.anchorBlockStartMarker = << >>
    /\ req.anchorBlockEndMarker = PartialText
    /\ NoOccurrence(req.anchorBlockEndMarker)
    /\ resp.message = "unexpectedError"
    /\ resp.SuggestedParameterValues = << >>

OccurrencesWithin(R, s, from, to) ==
    {x \in OccurrenceSpans(R, s) : x.rawStart >= from /\ x.rawEndExclusive <= to}

C6_ExactlyOneAnchorInBlock ==
    (/\ ServedOnTextFile("insert_text")
     /\ BasicPlane(prev.content)
     /\ trace.blockStartOffset >= 0)
    => LET n == Cardinality(OccurrencesWithin(prev.content, req.anchorText,
                                              trace.blockStartOffset, trace.blockEndOffset))
       IN  /\ resp.success <=> n = 1
           /\ n = 0 => resp.message = "noMatchFound" /\ resp.param = "anchorText"
           /\ n >= 2 => resp.message = "multipleMatches" /\ resp.param = "anchorText"

\* one "a" lies in the block that starts at "b", three lie before it: no-match
C6_Observed ==
    /\ ServedOnTextFile("insert_text")
    /\ prev.content = <<"a", "a", "a", "b", "a">>
    /\ req.anchorText = <<"a">>
    /\ req.anchorBlockStartMarker = <<"b">>
    /\ req.anchorBlockEndMarker = << >>
    /\ trace.blockStartOffset = 3
    /\ trace.blockEndOffset = 5
    /\ ~resp.success
    /\ resp.message = "noMatchFound"
    /\ resp.param = "anchorText"

(***************************************************************************)
(* C7.  The markers of insert_text are independently optional: with        *)
(* anchorBlockEndMarker given, anchorBlockStartMarker not, and an          *)
(* occurrence of the end marker in the file, the anchor is resolved within *)
(* [0, end of an end-marker occurrence) and the insert succeeds when the   *)
(* anchor is unique there.                                                 *)
(***************************************************************************)
C7_EndMarkerAlone ==
    (/\ ServedOnTextFile("insert_text")
     /\ ~Given(req.anchorBlockStartMarker)
     /\ Given(req.anchorBlockEndMarker)
     /\ ~NoOccurrence(req.anchorBlockEndMarker))
    => \E e \in OccurrenceSpans(prev.content, req.anchorBlockEndMarker) :
           /\ trace.blockStartOffset = 0
           /\ trace.blockEndOffset = e.rawEndExclusive
           /\ Cardinality(OccurrencesWithin(prev.content, req.anchorText,
                                            0, e.rawEndExclusive)) = 1
                  => resp.success

\* the end marker "b" alone, the anchor "a" once before it: the insert fails
C7_Observed ==
    /\ ServedOnTextFile("insert_text")
    /\ prev.content = <<"a", "b">>
    /\ req.anchorText = <<"a">>
    /\ req.anchorBlockStartMarker = << >>
    /\ req.anchorBlockEndMarker = <<"b">>
    /\ ~resp.success
    /\ resp.message = "unexpectedError"
    /\ content = prev.content

(***************************************************************************)
(* C8.  With both markers given, the block of insert_text and move_text    *)
(* starts at the rawStart of the first occurrence of the start marker and  *)
(* ends at the rawEndExcl of the last occurrence of the end marker that    *)
(* starts at or after the end of that start-marker occurrence, for any     *)
(* number of occurrences.  (Stated for text of the basic plane.)           *)
(***************************************************************************)
C8_BlockRange ==
    (/\ ServedOnTextFile("insert_text") \/ ServedOnTextFile("move_text")
     /\ Given(req.anchorBlockStartMarker)
     /\ Given(req.anchorBlockEndMarker)
     /\ BasicPlane(prev.content)
     /\ trace.blockStartOffset >= 0)
    => LET starts == OccurrenceSpans(prev.content, req.anchorBlockStartMarker)
           first == CHOOSE x \in starts : \A y \in starts : x.rawStart <= y.rawStart
           ends == {e \in OccurrenceSpans(prev.content, req.anchorBlockEndMarker) :
                        e.rawStart >= first.rawEndExclusive}
           last == CHOOSE x \in ends : \A y \in ends : y.rawStart <= x.rawStart
       IN  /\ starts # {}
           /\ ends # {}
           /\ trace.blockStartOffset = first.rawStart
           /\ trace.blockEndOffset = last.rawEndExclusive

\* "bbbab" with both markers "b": the block ends at the third "b", the anchor "a" is left out
C8_Observed ==
    /\ ServedOnTextFile("insert_text")
    /\ prev.content = <<"b", "b", "b", "a", "b">>
    /\ req.anchorText = <<"a">>
    /\ req.anchorBlockStartMarker = <<"b">>
    /\ req.anchorBlockEndMarker = <<"b">>
    /\ trace.blockStartOffset = 0
    /\ trace.blockEndOffset = 3
    /\ ~resp.success
    /\ resp.message = "noMatchFound"
    /\ resp.param = "anchorText"

(***************************************************************************)
(* C9.  A successful insert_text writes the original text with one         *)
(* contiguous insertion and nothing else changed.  For position = before   *)
(* the inserted string is textToBeInserted, followed by the detected line  *)
(* ending when addNewLine, placed at anchor.rawStart; for position = after *)
(* it is the detected line ending when addNewLine, then textToBeInserted,  *)
(* placed at anchor.rawEndExcl.  Removing the inserted string from the     *)
(* result yields the original file.  anchor is the span the matcher        *)
(* resolved for anchorText; a place past the end of the text is its end.   *)
(***************************************************************************)
\* the first line terminator of R: CR LF, LF or CR; LF when R has none
FirstLineEnding(R) ==
    LET breaks == {i \in 1 .. Len(R) : R[i] \in {"CR", "LF"}}
        i == CHOOSE x \in breaks : \A y \in breaks : x <= y
    IN  IF breaks = {} THEN <<"LF">>
        ELSE IF R[i] = "CR" /\ i < Len(R) /\ R[i + 1] = "LF" THEN <<"CR", "LF">>
        ELSE <<R[i]>>

C9_OneInsertion ==
    (ServedOnTextFile("insert_text") /\ resp.success)
    => /\ Len(trace.anchorMatches) = 1
       /\ LET anchor == trace.anchorMatches[1]
              before == req.positionRelativeToAnchorText = "before"
              eol == IF req.addNewLine THEN FirstLineEnding(prev.content) ELSE << >>
              inserted == IF before THEN req.textToBeInserted \o eol
                          ELSE eol \o req.textToBeInserted
              at == Min(IF before THEN anchor.rawStart ELSE anchor.rawEndExclusive,
                        Len(prev.content))
          IN  /\ content = Spliced(prev.content, at, at, inserted)
              /\ Spliced(content, at, at + Len(inserted), << >>) = prev.content
              /\ Len(content) = Len(prev.content) + Len(inserted)

\* text and a CR LF line ending were inserted after the anchor of a file that uses CR LF
C9_Witness ==
    /\ ServedOnTextFile("insert_text")
    /\ resp.success
    /\ req.addNewLine
    /\ req.positionRelativeToAnchorText = "after"
    /\ prev.content = <<"a", "CR", "LF">>
    /\ content = <<"a", "CR", "LF", "b", "CR", "LF">>


(***************************************************************************)
(* C10.  move_text uses line-boundary mode iff (a) only non-newline        *)
(* whitespace separates the moved span's start from the start of its line  *)
(* or of the file, (b) only non-newline whitespace separates the moved     *)
(* span's end from the end of its line or of the file, and (c) the same    *)
(* holds for the anchor span on the left side when position = before, on   *)
(* the right side when position = after; in every other case the move is   *)
(* intra-line.  The spans are those the matcher resolved for textToBeMoved *)
(* and anchorText.                                                         *)
(***************************************************************************)
Newlines == {"LF", "CR"}
Blanks == WhiteSpaceScalars \ Newlines

\* only blanks lie between the start of a line (or of R) and the place pos
BlankBackToLineStart(R, pos) ==
    /\ pos <= Len(R)
    /\ \E j \in 0 .. pos :
           /\ j = 0 \/ R[j] \in Newlines
           /\ \A i \in j + 1 .. pos : R[i] \in Blanks

\* only blanks lie between the place pos and the end of its line (or of R)
BlankOnToLineEnd(R, pos) ==
    /\ pos <= Len(R)
    /\ \E j \in pos .. Len(R) :
           /\ j = Len(R) \/ R[j + 1] \in Newlines
           /\ \A i \in pos + 1 .. j : R[i] \in Blanks

C10_LineBoundaryMode ==
    (ServedOnTextFile("move_text") /\ trace.op = "move" /\ trace.insertionPoint >= 0)
    => LET R == prev.content
           moved == trace.moveSpan
           anchor == trace.anchorMatches[1]
           before == req.positionRelativeToAnchorText = "before"
           a == BlankBackToLineStart(R, moved.rawStart)
           b == BlankOnToLineEnd(R, moved.rawEndExclusive)
           c == IF before THEN BlankBackToLineStart(R, anchor.rawStart)
                ELSE BlankOnToLineEnd(R, anchor.rawEndExclusive)
       IN  /\ trace.isLineBoundaryMove <=> (a /\ b /\ c)
           /\ ~trace.isLineBoundaryMove
                  => /\ trace.deletionSpan.rawStart = moved.rawStart
                     /\ trace.deletionSpan.rawEndExclusive = moved.rawEndExclusive
                     /\ trace.insertionPoint =
                            (IF before THEN anchor.rawStart ELSE anchor.rawEndExclusive)
                     /\ trace.textToMove = Slice(R, moved.rawStart, moved.rawEndExclusive)

\* an indented line was moved, as a line, to after the line of the anchor
C10_Witness ==
    /\ ServedOnTextFile("move_text")
    /\ resp.success
    /\ trace.isLineBoundaryMove
    /\ req.positionRelativeToAnchorText = "after"
    /\ prev.content = <<"SP", "b", "LF", "a">>
    /\ content = <<"a", "LF", "SP", "b">>


(***************************************************************************)
(* C11.  In line-boundary mode a successful move_text deletes the raw      *)
(* range from the moved span's left line boundary to its right line        *)
(* boundary extended rightward over the following run of CR/LF scalars,    *)
(* and inserts at the anchor's line boundary (left for before, right for   *)
(* after) the text between the moved span's two line boundaries with the   *)
(* detected line ending appended (before) or prepended (after); all other  *)
(* scalars keep their relative order.  The spans are those the matcher     *)
(* resolved for textToBeMoved and anchorText.                              *)
(***************************************************************************)
\* the start of the line that holds the place pos
LineStart(R, pos) ==
    CHOOSE j \in 0 .. pos :
        /\ j = 0 \/ R[j] \in Newlines
        /\ \A k \in j + 1 .. pos : R[k] \notin Newlines

\* the end of the line that holds the place pos, before its terminator
LineEnd(R, pos) ==
    CHOOSE j \in pos .. Len(R) :
        /\ j = Len(R) \/ R[j + 1] \in Newlines
        /\ \A k \in pos + 1 .. j : R[k] \notin Newlines

\* the place after the run of CR/LF scalars that starts at pos
PastNewlines(R, pos) ==
    CHOOSE j \in pos .. Len(R) :
        /\ j = Len(R) \/ R[j + 1] \notin Newlines
        /\ \A k \in pos + 1 .. j : R[k] \in Newlines

\* R[from, to): the scalars of R at the places from .. to - 1 that R has
Part(R, from, to) == SubSeq(R, Min(from, Len(R)) + 1, Min(to, Len(R)))

\* R with [from, to) taken out and text put in at the place at, which is outside (from, to)
Relocated(R, from, to, at, text) ==
    IF at <= from
    THEN Part(R, 0, at) \o text \o Part(R, at, from) \o Part(R, to, Len(R))
    ELSE Part(R, 0, from) \o Part(R, to, at) \o text \o Part(R, at, Len(R))

C11_LineBoundaryMove ==
    (ServedOnTextFile("move_text") /\ resp.success /\ trace.isLineBoundaryMove)
    => LET R == prev.content
           moved == trace.moveSpan
           anchor == trace.anchorMatches[1]
           before == req.positionRelativeToAnchorText = "before"
           from == LineStart(R, moved.rawStart)
           lineEnd == LineEnd(R, moved.rawEndExclusive)
           to == PastNewlines(R, lineEnd)
           at == IF before THEN LineStart(R, anchor.rawStart)
                 ELSE LineEnd(R, anchor.rawEndExclusive)
           line == Part(R, from, lineEnd)
           text == IF before THEN line \o FirstLineEnding(R) ELSE FirstLineEnding(R) \o line
       IN  /\ ~(from < at /\ at < to)
           /\ content = Relocated(R, from, to, at, text)
           /\ fsCalls[Len(fsCalls)] = "writeFile"

\* the first line and its terminator were taken out and the line put after the last one
C11_Witness ==
    /\ ServedOnTextFile("move_text")
    /\ resp.success
    /\ trace.isLineBoundaryMove
    /\ req.positionRelativeToAnchorText = "after"
    /\ prev.content = <<"b", "LF", "a">>
    /\ content = <<"a", "LF", "b">>


(***************************************************************************)
(* C12.  When move_text is not in line-boundary mode, the result is the    *)
(* original scalar sequence with R[move.rawStart, move.rawEndExcl) removed *)
(* and re-inserted verbatim at anchor.rawStart (before) or                 *)
(* anchor.rawEndExcl (after), the insertion index being reduced by the     *)
(* deleted length when it lay after the deletion start; no line ending is  *)
(* injected and the file length in scalars is unchanged.  The spans are    *)
(* those the matcher resolved.                                             *)
(***************************************************************************)
C12_IntraLineMove ==
    (ServedOnTextFile("move_text") /\ resp.success /\ ~trace.isLineBoundaryMove)
    => LET R == prev.content
           moved == trace.moveSpan
           anchor == trace.anchorMatches[1]
           at == IF req.positionRelativeToAnchorText = "before"
                 THEN anchor.rawStart ELSE anchor.rawEndExclusive
       IN  /\ content = Relocated(R, moved.rawStart, moved.rawEndExclusive, at,
                                  Part(R, moved.rawStart, moved.rawEndExclusive))
           /\ Len(content) = Len(R)
           /\ \A c \in Scalars :
                  Cardinality({i \in 1 .. Len(content) : content[i] = c})
                      = Cardinality({i \in 1 .. Len(R) : R[i] = c})

\* "b" was taken from the end of a line and put before the "a" that starts it
C12_Witness ==
    /\ ServedOnTextFile("move_text")
    /\ resp.success
    /\ ~trace.isLineBoundaryMove
    /\ req.positionRelativeToAnchorText = "before"
    /\ prev.content = <<"a", "SP", "b">>
    /\ content = <<"b", "a", "SP">>


(***************************************************************************)
(* C13.  move_text fails with the overlap error, with no suggestions and   *)
(* no write, exactly when the computed insertion point p satisfies         *)
(* deletion.rawStart < p < deletion.rawEndExcl; an insertion point equal   *)
(* to either endpoint of the deletion span is accepted.  The deletion span *)
(* and p are computed here from the resolved spans and the mode.           *)
(***************************************************************************)
\* the move found its text and its anchor and went on to the overlap check
MoveResolved == ServedOnTextFile("move_text") /\ trace.op = "move" /\ trace.insertionPoint >= 0

C13_Overlap ==
    /\ (pc = "done" /\ req.op = "move_text" /\ resp.message = "overlap") => MoveResolved
    /\ MoveResolved
       => LET R == prev.content
              moved == trace.moveSpan
              anchor == trace.anchorMatches[1]
              before == req.positionRelativeToAnchorText = "before"
              lines == trace.isLineBoundaryMove
              from == IF lines THEN LineStart(R, moved.rawStart) ELSE moved.rawStart
              to == IF lines THEN PastNewlines(R, LineEnd(R, moved.rawEndExclusive))
                    ELSE moved.rawEndExclusive
              at == IF lines
                    THEN (IF before THEN LineStart(R, anchor.rawStart)
                          ELSE LineEnd(R, anchor.rawEndExclusive))
                    ELSE (IF before THEN anchor.rawStart ELSE anchor.rawEndExclusive)
          IN  IF from < at /\ at < to
              THEN /\ ~resp.success
                   /\ resp.message = "overlap"
                   /\ ~resp.hasSuggestions
                   /\ resp.SuggestedParameterValues = << >>
                   /\ "writeFile" \notin Range(fsCalls)
                   /\ content = prev.content
              ELSE resp.success

\* the anchor "a" lies in the text "ab" to be moved, and the text was to go after it
C13_Witness ==
    /\ pc = "done"
    /\ req.op = "move_text"
    /\ resp.message = "overlap"
    /\ req.positionRelativeToAnchorText = "after"
    /\ req.textToBeMoved = <<"a", "b">>
    /\ req.anchorText = <<"a">>
    /\ prev.content = <<"a", "b">>
    /\ content = <<"a", "b">>

\* the text "ab" was to go before its own first scalar: the move is accepted
C13_EndpointAccepted ==
    /\ MoveResolved
    /\ resp.success
    /\ trace.insertionPoint = trace.deletionSpan.rawStart


(***************************************************************************)
(* C14.  append_text_to_file with addNewLineBeforeAppending = true ignores *)
(* the flag when the file already ends with a newline: if the content ends *)
(* with a line terminator (LF, CRLF or CR) the written content is          *)
(* content + appendText with no terminator added; otherwise it is          *)
(* content + detected line ending + appendText.                            *)
(***************************************************************************)
EndsWithLineTerminator(R) == Len(R) > 0 /\ R[Len(R)] \in Newlines

C14_AppendNewLine ==
    (ServedOnTextFile("append_text_to_file") /\ req.addNewLineBeforeAppending)
    => /\ resp.success
       /\ content = IF EndsWithLineTerminator(prev.content)
                    THEN prev.content \o req.appendText
                    ELSE prev.content \o FirstLineEnding(prev.content) \o req.appendText

\* the file starts with a CR LF and ends with a bare LF: a CR LF is added before the text
C14_Observed ==
    /\ ServedOnTextFile("append_text_to_file")
    /\ req.addNewLineBeforeAppending
    /\ resp.success
    /\ req.appendText = <<"a">>
    /\ prev.content = <<"CR", "LF", "LF">>
    /\ content = <<"CR", "LF", "LF", "CR", "LF", "a">>


(***************************************************************************)
(* C15.  In replace, delete, overwrite, append, insert and move, the       *)
(* existence check, the access check and the binary check all complete     *)
(* before the file's text is read or written, and a file classified binary *)
(* yields the binary refusal with no text read and no write; delete_file   *)
(* never runs the binary check and deletes a file that the check would     *)
(* classify as binary.                                                     *)
(***************************************************************************)
TextOperations ==
    {"replace_matching_text", "delete_matching_text", "overwrite_file_content",
     "append_text_to_file", "insert_text", "move_text"}

TextCalls == {"readFile", "writeFile"}

C15_ChecksBeforeText ==
    /\ (pc = "done" /\ req.op \in TextOperations)
       => /\ \A i \in 1 .. Len(fsCalls) :
                 fsCalls[i] \in TextCalls
                 => /\ i > 3
                    /\ SubSeq(fsCalls, 1, 3) = <<"existsSync", "access", "isBinaryFile">>
          /\ prev.fstatus = "binary"
             => /\ ~resp.success
                /\ resp.message = "binaryFileError"
                /\ Range(fsCalls) \cap TextCalls = {}
                /\ fstatus = "binary"
                /\ content = prev.content
    /\ (pc = "done" /\ req.op = "delete_file")
       => /\ "isBinaryFile" \notin Range(fsCalls)
          /\ prev.fstatus = "binary"
             => /\ resp.success
                /\ fsCalls = <<"existsSync", "access", "unlink">>
                /\ fstatus = "missing"

\* an insert was asked of a binary file and was turned down after the three checks
C15_Witness ==
    /\ pc = "done"
    /\ req.op = "insert_text"
    /\ prev.fstatus = "binary"
    /\ resp.message = "binaryFileError"
    /\ fsCalls = <<"existsSync", "access", "isBinaryFile">>

\* a binary file was deleted
C15_BinaryDeleted ==
    /\ pc = "done"
    /\ req.op = "delete_file"
    /\ prev.fstatus = "binary"
    /\ resp.success
    /\ fstatus = "missing"


(***************************************************************************)
(* C16.  create_file and move_or_rename_file never overwrite: if the       *)
(* target path exists when the operation checks it, the operation fails    *)
(* with the target-exists error and performs no write or rename; if the    *)
(* target's parent directory is missing and createMissingDirectories is    *)
(* not true, the operation fails with directory-missing and creates no     *)
(* directory.                                                              *)
(***************************************************************************)
Changing == {"writeFile", "rename", "mkdirSync", "unlink"}

C16_NeverOverwrite ==
    /\ (pc = "done" /\ req.op = "create_file")
       => /\ resp.success => prev.fstatus = "missing"
          /\ (prev.dirExists /\ prev.fstatus # "missing")
             => /\ ~resp.success
                /\ resp.message = "fileAlreadyExists"
                /\ Range(fsCalls) \cap Changing = {}
                /\ fstatus = prev.fstatus
                /\ content = prev.content
          /\ (~prev.dirExists /\ ~req.createMissingDirectories)
             => /\ ~resp.success
                /\ resp.message = "directoryMissing"
                /\ Range(fsCalls) \cap Changing = {}
                /\ ~dirExists
                /\ fstatus = "missing"
    /\ (pc = "done" /\ req.op = "move_or_rename_file" /\ prev.fstatus # "missing")
       => /\ resp.success => ~trace.targetBefore.exists
          /\ trace.targetBefore.exists
             => /\ ~resp.success
                /\ resp.message = "targetPathExists"
                /\ Range(fsCalls) \cap Changing = {}
                /\ trace.targetAfter = trace.targetBefore
                /\ fstatus = prev.fstatus
                /\ content = prev.content
          /\ (~trace.targetBefore.exists /\ ~trace.targetBefore.dirExists
              /\ ~req.createMissingDirectories)
             => /\ ~resp.success
                /\ resp.message = "directoryMissing"
                /\ Range(fsCalls) \cap Changing = {}
                /\ trace.targetAfter = trace.targetBefore
                /\ fstatus = prev.fstatus
                /\ content = prev.content

\* a rename onto a path that is taken was turned down
C16_Witness ==
    /\ pc = "done"
    /\ req.op = "move_or_rename_file"
    /\ prev.fstatus = "ok"
    /\ trace.targetBefore.exists
    /\ resp.message = "targetPathExists"
    /\ fsCalls = <<"existsSync", "existsSync">>

\* a file was to be created in a directory that is not there, and none was made
C16_DirectoryMissing ==
    /\ pc = "done"
    /\ req.op = "create_file"
    /\ ~prev.dirExists
    /\ resp.message = "directoryMissing"
    /\ ~dirExists


(***************************************************************************)
(* C17.  For any file and any search string whose whitespace-stripped form *)
(* is empty, and for any search string against a file whose                *)
(* whitespace-stripped text is empty, the matcher returns no spans         *)
(* (neither exact nor fuzzy), so the operation fails with no-match and an  *)
(* empty suggestion list.                                                  *)
(***************************************************************************)
NoMatchNoSuggestion ==
    /\ ~resp.success
    /\ resp.message = "noMatchFound"
    /\ resp.SuggestedParameterValues = << >>
    /\ "writeFile" \notin Range(fsCalls)
    /\ content = prev.content

EmptySearch == Stripped(req.searchText) = << >> \/ Stripped(prev.content) = << >>

\* as stated: every replace and every delete of such a request fails with no-match
C17_EmptyFailsNoMatch ==
    \A op \in {"replace_matching_text", "delete_matching_text"} :
        (ServedOnTextFile(op) /\ EmptySearch) => NoMatchNoSuggestion

\* C17, for the requests that reach the matcher: a replace whose replacementText equals
\* its searchText is turned down with the identical-text error before the file is read
C17_EmptyNeverMatches ==
    /\ \A op \in {"replace_matching_text", "delete_matching_text"} :
          ServedOnTextFile(op)
          => /\ trace.op # "search"
                => /\ op = "replace_matching_text"
                   /\ req.searchText = req.replacementText
                   /\ resp.message = "identicalText"
             /\ (trace.op = "search" /\ EmptySearch)
                => /\ trace.spans = << >>
                   /\ ~trace.isExactMatch
                   /\ resp.param = "searchText"
                   /\ NoMatchNoSuggestion
    /\ \A op \in {"insert_text", "move_text"} :
          (ServedOnTextFile(op) /\ Stripped(prev.content) = << >>)
          => /\ trace.anchorMatches = << >>
             /\ NoMatchNoSuggestion

\* a space was searched for, to be deleted, in a file that has one between two letters
C17_Witness ==
    /\ ServedOnTextFile("delete_matching_text")
    /\ req.searchText = <<"SP">>
    /\ prev.content = <<"a", "SP", "b">>
    /\ trace.op = "search"
    /\ trace.spans = << >>
    /\ resp.message = "noMatchFound"

\* a letter was searched for in a file of white space only
C17_EmptyFile ==
    /\ ServedOnTextFile("replace_matching_text")
    /\ req.searchText = <<"a">>
    /\ prev.content = <<"SP", "LF">>
    /\ trace.op = "search"
    /\ resp.message = "noMatchFound"


(***************************************************************************)
(* C18.  Every span returned by the exact phase satisfies                  *)
(* F[flatStart, flatEndExcl) = normalize(searchText), its raw slice        *)
(* R[rawStart, rawEndExcl) with whitespace removed equals                  *)
(* normalize(searchText), and R[rawStart] and R[rawEndExcl-1] are          *)
(* non-whitespace; the spans are returned in strictly increasing flatStart *)
(* order and number at most 3.  F is the text with its whitespace removed, *)
(* a string: its offsets count UTF-16 code units.                          *)
(***************************************************************************)
\* a replace or a delete whose search ended in the exact phase
ExactSearch ==
    /\ pc = "done"
    /\ req.op \in {"replace_matching_text", "delete_matching_text"}
    /\ prev.fstatus = "ok"
    /\ trace.op = "search"
    /\ trace.isExactMatch

ExactSpan(R, s, span) ==
    /\ 0 <= span.flatStart /\ span.flatStart < span.flatEndExclusive
    /\ Part(Units(Stripped(R)), span.flatStart, span.flatEndExclusive) = Units(Stripped(s))
    /\ 0 <= span.rawStart /\ span.rawStart < span.rawEndExclusive
    /\ span.rawEndExclusive <= Len(R)
    /\ Stripped(Part(R, span.rawStart, span.rawEndExclusive)) = Stripped(s)
    /\ R[span.rawStart + 1] \notin WhiteSpaceScalars
    /\ R[span.rawEndExclusive] \notin WhiteSpaceScalars

ExactSpans(R, s, spans) ==
    /\ Len(spans) >= 1
    /\ Len(spans) <= 3
    /\ \A k \in 1 .. Len(spans) : ExactSpan(R, s, spans[k])
    /\ \A k \in 1 .. Len(spans) - 1 : spans[k].flatStart < spans[k + 1].flatStart

C18_ExactSpans ==
    ExactSearch => ExactSpans(prev.content, req.searchText, trace.spans)

\* C18 on text of the basic plane
C18_ExactSpansBasicPlane ==
    (ExactSearch /\ BasicPlane(prev.content))
    => ExactSpans(prev.content, req.searchText, trace.spans)

\* "a" was searched for in a file that holds an astral scalar and then "a"
C18_Observed ==
    /\ ExactSearch
    /\ req.op = "delete_matching_text"
    /\ req.searchText = <<"a">>
    /\ prev.content = <<"U", "a">>
    /\ ~ExactSpans(prev.content, req.searchText, trace.spans)


(***************************************************************************)
(* C19.  In replace/delete with all-matches, spans are spliced in          *)
(* descending rawStart order and earlier splices do not invalidate later   *)
(* raw indices: at the moment each span is spliced, the working vector's   *)
(* scalars at [rawStart, rawEndExcl) are the same scalars the original     *)
(* file had there (the matched text), for every pattern and file including *)
(* patterns whose occurrences overlap.                                     *)
(***************************************************************************)
\* a successful replace or delete of all matches
AllMatchesSpliced ==
    /\ pc = "done"
    /\ prev.fstatus = "ok"
    /\ resp.success
    /\ \/ req.op = "replace_matching_text" /\ req.replaceAllOccurrencesOfSearchText
       \/ req.op = "delete_matching_text" /\ req.deleteAllOccurrencesOfSearchText

\* what a replace or delete puts in the place of a match
Replacement == IF req.op = "replace_matching_text" THEN req.replacementText ELSE << >>

\* the working vector at the moment spans[k] is spliced: the spans after it are done
RECURSIVE WorkingBefore(_, _, _, _)
WorkingBefore(R, spans, k, new) ==
    IF k >= Len(spans) THEN R
    ELSE LET W == WorkingBefore(R, spans, k + 1, new)
         IN  Part(W, 0, spans[k + 1].rawStart) \o new
                 \o Part(W, spans[k + 1].rawEndExclusive, Len(W))

C19_SplicesKeepIndices ==
    AllMatchesSpliced
    => LET R == prev.content
           spans == trace.spans
       IN  /\ \A k \in 1 .. Len(spans) - 1 : spans[k].rawStart < spans[k + 1].rawStart
           /\ content = WorkingBefore(R, spans, 0, Replacement)
           /\ \A k \in 1 .. Len(spans) :
                  Part(WorkingBefore(R, spans, k, Replacement),
                       spans[k].rawStart, spans[k].rawEndExclusive)
                      = Part(R, spans[k].rawStart, spans[k].rawEndExclusive)

\* the property for spans that lie in the text and do not overlap
C19_DisjointSplicesKeepIndices ==
    (/\ AllMatchesSpliced
     /\ \A k \in 1 .. Len(trace.spans) : trace.spans[k].rawEndExclusive <= Len(prev.content)
     /\ \A k \in 1 .. Len(trace.spans) - 1 :
            trace.spans[k].rawEndExclusive <= trace.spans[k + 1].rawStart)
    => LET R == prev.content
           spans == trace.spans
       IN  /\ content = WorkingBefore(R, spans, 0, Replacement)
           /\ \A k \in 1 .. Len(spans) :
                  Part(WorkingBefore(R, spans, k, Replacement),
                       spans[k].rawStart, spans[k].rawEndExclusive)
                      = Part(R, spans[k].rawStart, spans[k].rawEndExclusive)

\* a successful replace or delete of all matches always leaves the sequential splices
C19_ContentIsSpliced ==
    AllMatchesSpliced
    => /\ content = WorkingBefore(prev.content, trace.spans, 0, Replacement)
       /\ \A k \in 1 .. Len(trace.spans) - 1 :
              trace.spans[k].rawStart < trace.spans[k + 1].rawStart

\* every "aa" of "aaa" was to become "b": the second splice took the first one's "b"
C19_Observed ==
    /\ AllMatchesSpliced
    /\ req.op = "replace_matching_text"
    /\ req.searchText = <<"a", "a">>
    /\ req.replacementText = <<"b">>
    /\ prev.content = <<"a", "a", "a">>
    /\ trace.spans[1].rawEndExclusive > trace.spans[2].rawStart
    /\ resp.count = 2
    /\ content = <<"b">>


(***************************************************************************)
(* C20.  Applying the same successful replace_matching_text request twice  *)
(* in a row: the second invocation either succeeds again or returns the    *)
(* no-match error (no other outcome), and in the failing case the file is  *)
(* left exactly as the first invocation wrote it.                          *)
(* The second invocation is the implementation applied to the file the     *)
(* first one left, with the request the first one served.                  *)
(***************************************************************************)
FirstReplaceSucceeded == ServedOnTextFile("replace_matching_text") /\ resp.success

\* the second invocation left the file as it found it
SecondLeftFile(second) ==
    /\ second.content = content
    /\ second.fstatus = fstatus
    /\ \A i \in 1 .. Len(second.calls) : second.calls[i] \notin Changing

C20_SecondFindsTwo ==
    /\ FirstReplaceSucceeded
    /\ req.searchText = <<"a">>
    /\ req.replacementText = <<"a", "a">>
    /\ ~req.replaceAllOccurrencesOfSearchText
    /\ prev.content = <<"a">>
    /\ content = <<"a", "a">>
    /\ replaceMatchingTextImpl(fstatus, content, req).result.message = "multipleMatches"

\* the second invocation succeeds again
C20_SecondSucceeds ==
    /\ FirstReplaceSucceeded
    /\ prev.content = <<"a", "a", "b">>
    /\ content = <<"a", "b">>
    /\ replaceMatchingTextImpl(fstatus, content, req).result.success
    /\ replaceMatchingTextImpl(fstatus, content, req).content = <<"b">>


(***************************************************************************)
(* C21.  When the disambiguation expander returns for two or more exact    *)
(* matches, all suggestions yield distinct projections: for any two        *)
(* different matches, the whitespace-stripped text of their suggestions    *)
(* differs.                                                                *)
(* The expander is observed where replace and delete hand it the spans of  *)
(* the exact phase: the multiple-matches failure.                          *)
(***************************************************************************)
MultipleMatchesSuggested ==
    /\ pc = "done"
    /\ prev.fstatus = "ok"
    /\ req.op \in {"replace_matching_text", "delete_matching_text"}
    /\ resp.message = "multipleMatches"

\* the helpers the served request built from the file it read
ReadHelpers == buildFlatRawTextHelpers(Units(prev.content))

\* the spans the expander ended with, for the spans the search resolved
FinalSlices ==
    LET h == ReadHelpers
    IN  DisambiguationLoop(trace.spans, {}, h.rawTextChars, h.flatRawText, h.rawToFlatRaw)

\* the span cannot be widened by a token on either side
NonExpandable(span) ==
    LET h == ReadHelpers
        expanded == expandSpanForDisambiguation(span, h.rawTextChars, h.rawToFlatRaw)
    IN  expanded.rawStart = span.rawStart /\ expanded.rawEndExclusive = span.rawEndExclusive

SuggestionText(k) == resp.SuggestedParameterValues[k].searchText

\* as stated: any two suggestions differ once stripped
C21_DistinctProjections ==
    MultipleMatchesSuggested
    => \A j, k \in 1 .. Len(resp.SuggestedParameterValues) :
           j # k => Stripped(SuggestionText(j)) # Stripped(SuggestionText(k))

\* on a file of the basic plane two suggestions share their stripped text only where
\* neither span can grow any more
C21_DistinctWhileExpandable ==
    MultipleMatchesSuggested
    => /\ Len(resp.SuggestedParameterValues) = Len(trace.spans)
       /\ Len(trace.spans) >= 2
       /\ \A k \in 1 .. Len(trace.spans) :
              SuggestionText(k) = sliceBySpan(ReadHelpers.rawTextChars, FinalSlices[k])
       /\ BasicPlane(prev.content)
          => \A j, k \in 1 .. Len(trace.spans) :
                 (j # k /\ Stripped(SuggestionText(j)) = Stripped(SuggestionText(k)))
                 => NonExpandable(FinalSlices[j]) /\ NonExpandable(FinalSlices[k])

\* "a" searched in " Uaa", U outside the basic plane: the loop ends with two spans
\* that can still grow and whose flat slices differ, and both suggestions are "Uaa"
C21_Observed ==
    /\ MultipleMatchesSuggested
    /\ req.searchText = <<"a">>
    /\ prev.content = <<"SP", "U", "a", "a">>
    /\ Len(resp.SuggestedParameterValues) = 2
    /\ SuggestionText(1) = <<"U", "a", "a">>
    /\ SuggestionText(2) = <<"U", "a", "a">>
    /\ ~NonExpandable(FinalSlices[1])
    /\ ~NonExpandable(FinalSlices[2])
    /\ FinalSlices[1].flatEndExclusive # FinalSlices[2].flatEndExclusive

\* "a" searched in "a a b": the suggestions are "a a" and the whole of "a a b"
C21_Witness ==
    /\ MultipleMatchesSuggested
    /\ req.searchText = <<"a">>
    /\ prev.content = <<"a", "SP", "a", "SP", "b">>
    /\ Len(resp.SuggestedParameterValues) = 2
    /\ SuggestionText(1) = <<"a", "SP", "a">>
    /\ SuggestionText(2) = <<"a", "SP", "a", "SP", "b">>
    /\ ~NonExpandable(FinalSlices[1])

\* "aa", "a" searched: both suggestions are the whole file
C21_BothWholeFile ==
    /\ MultipleMatchesSuggested
    /\ req.op = "delete_matching_text"
    /\ req.searchText = <<"a">>
    /\ prev.content = <<"a", "a">>
    /\ Len(resp.SuggestedParameterValues) = 2
    /\ SuggestionText(1) = <<"a", "a">>
    /\ SuggestionText(2) = <<"a", "a">>


(***************************************************************************)
(* C22.  Each disambiguation suggestion is textually unique and re-usable: *)
(* used as the search string against the same unchanged file, its          *)
(* whitespace-stripped form has exactly one exact occurrence, and that     *)
(* occurrence contains the original match the suggestion was expanded      *)
(* from.                                                                   *)
(***************************************************************************)
\* the one occurrence of text in R spans the match
OnlyOccurrenceCovers(R, text, match) ==
    /\ Cardinality(OccurrenceStarts(R, text)) = 1
    /\ \A o \in OccurrenceSpans(R, text) :
           o.rawStart <= match.rawStart /\ match.rawEndExclusive <= o.rawEndExclusive

C22_SuggestionsUnique ==
    MultipleMatchesSuggested
    => \A k \in 1 .. Len(resp.SuggestedParameterValues) :
           OnlyOccurrenceCovers(prev.content, SuggestionText(k), trace.spans[k])

\* "a" searched in "a b a b": the suggestion "a b" of the first match stands twice
C22_Observed ==
    /\ MultipleMatchesSuggested
    /\ req.op = "delete_matching_text"
    /\ req.searchText = <<"a">>
    /\ prev.content = <<"a", "SP", "b", "SP", "a", "SP", "b">>
    /\ SuggestionText(1) = <<"a", "SP", "b">>
    /\ SuggestionText(2) = <<"b", "SP", "a", "SP", "b">>
    /\ Cardinality(OccurrenceStarts(prev.content, SuggestionText(1))) = 2
    /\ deleteMatchingTextImpl(fstatus, content,
           [req EXCEPT !.searchText = SuggestionText(1)]).result.message = "multipleMatches"

\* a suggestion that is unique: "a a" for the first "a" of "a a b"
C22_UniqueSuggestion ==
    /\ MultipleMatchesSuggested
    /\ prev.content = <<"a", "SP", "a", "SP", "b">>
    /\ req.searchText = <<"a">>
    /\ OnlyOccurrenceCovers(prev.content, SuggestionText(1), trace.spans[1])


(***************************************************************************)
(* C23.  For every raw text R the flat-view builder returns F equal to R   *)
(* with all whitespace scalars removed, an F-to-R map that is strictly     *)
(* increasing, an R-to-F map that is non-decreasing,                       *)
(* F-to-R[R-to-F[i]] = i for every non-whitespace raw index i, and         *)
(* R-to-F[i] = index of the next non-whitespace scalar in F (|F| when none *)
(* follows) for every whitespace index i.                                  *)
(* F is read as the specification reads it, a sequence of scalars: the     *)
(* scalars of the string the builder returns.  The builder is observed     *)
(* where a request has read the file.                                      *)
(***************************************************************************)
FileWasRead ==
    /\ pc = "done"
    /\ req.op \in {"replace_matching_text", "delete_matching_text", "insert_text", "move_text"}
    /\ "readFile" \in Range(fsCalls)

\* the raw indices after i that hold a non-whitespace scalar
NonWsAfter(R, i) == {k \in i + 1 .. Len(R) - 1 : At(R, k) \notin WhiteSpaceScalars}

FlatView(R, h) ==
    LET F == ArrayFrom(h.flatRawText)
        FtoR == h.flatRawToRaw
        RtoF == h.rawToFlatRaw
    IN  /\ h.rawTextChars = R
        /\ F = Stripped(R)
        /\ Len(FtoR) = Len(F)
        /\ Len(RtoF) = Len(R)
        /\ \A j \in 1 .. Len(FtoR) - 1 : FtoR[j] < FtoR[j + 1]
        /\ \A i \in 1 .. Len(RtoF) - 1 : RtoF[i] <= RtoF[i + 1]
        /\ \A i \in 0 .. Len(R) - 1 :
               IF At(R, i) \notin WhiteSpaceScalars
               THEN /\ At(RtoF, i) < Len(F)
                    /\ At(FtoR, At(RtoF, i)) = i
                    /\ At(F, At(RtoF, i)) = At(R, i)
               ELSE IF NonWsAfter(R, i) = {}
               THEN At(RtoF, i) = Len(F)
               ELSE /\ At(RtoF, i) < Len(F)
                    /\ At(FtoR, At(RtoF, i))
                           = CHOOSE k \in NonWsAfter(R, i) : \A n \in NonWsAfter(R, i) : k <= n

C23_FlatView == FileWasRead => FlatView(prev.content, ReadHelpers)

\* whitespace in the text and at its end, behind a scalar outside the basic plane
C23_Witness ==
    /\ FileWasRead
    /\ req.op = "insert_text"
    /\ prev.content = <<"U", "SP", "a">>
    /\ ReadHelpers.rawToFlatRaw = <<0, 1, 1>>
    /\ ReadHelpers.flatRawToRaw = <<0, 2>>
    /\ ArrayFrom(ReadHelpers.flatRawText) = <<"U", "a">>

\* whitespace at the end of the text projects to |F|
C23_TrailingWhiteSpace ==
    /\ FileWasRead
    /\ prev.content = <<"a", "b", "SP", "LF">>
    /\ ReadHelpers.rawToFlatRaw = <<0, 1, 2, 2>>
    /\ ReadHelpers.flatRawToRaw = <<0, 1>>


(***************************************************************************)
(* C24.  For every pattern P of length m and text T, the suffix-match      *)
(* array satisfies, at every start s in [0, |T|): suffix[s] is the maximum *)
(* l such that T[s..s+l) = P[m-l..m) (0 when no such l >= 1 exists).       *)
(* The array is observed where a replace or delete went into the fuzzy     *)
(* phase: P is the normalized searchText, T the flat text of the file.     *)
(***************************************************************************)
FuzzyPattern == normalizeText(req.searchText)
FuzzyText == ReadHelpers.flatRawText

FuzzySearched ==
    /\ pc = "done"
    /\ req.op \in {"replace_matching_text", "delete_matching_text"}
    /\ trace.op = "search"
    /\ ~trace.isExactMatch
    /\ Len(FuzzyPattern) > 0
    /\ Len(FuzzyText) > 0

\* the lengths l >= 1 with T[s..s+l) = P[m-l..m)
SuffixLensAt(P, T, s) ==
    {l \in 1 .. Min(Len(P), Len(T) - s) : Slice(T, s, s + l) = Slice(P, Len(P) - l, Len(P))}

C24_SuffixMatches ==
    FuzzySearched
    => LET suffix == computeSuffixMatches(FuzzyPattern, FuzzyText)
       IN  /\ Len(suffix) = Len(FuzzyText)
           /\ \A s \in 0 .. Len(FuzzyText) - 1 :
                  At(suffix, s) = MaxOf(SuffixLensAt(FuzzyPattern, FuzzyText, s) \cup {0})

\* what the array does hold: at every end, the longest match that ends there, entered
\* at its start; an entry is never longer than the longest match at its start
C24_LongestAtEveryEnd ==
    FuzzySearched
    => LET P == FuzzyPattern
           T == FuzzyText
           suffix == computeSuffixMatches(P, T)
       IN  /\ Len(suffix) = Len(T)
           /\ \A s \in 0 .. Len(T) - 1 :
                  /\ At(suffix, s) \in SuffixLensAt(P, T, s) \cup {0}
                  /\ \A l \in SuffixLensAt(P, T, s) :
                         \/ At(suffix, s) >= l
                         \/ \E before \in 0 .. s - 1 : At(suffix, before) > l + (s - before) - 1

\* "aabb" searched in "abb": "bb" at 1 ends P and the array holds 1 there; "b" at 2
\* ends P and the array holds 0
C24_Observed ==
    /\ FuzzySearched
    /\ req.op = "delete_matching_text"
    /\ req.searchText = PartialText
    /\ prev.content = <<"a", "b", "b">>
    /\ computeSuffixMatches(FuzzyPattern, FuzzyText) = <<3, 1, 0>>
    /\ SuffixLensAt(FuzzyPattern, FuzzyText, 1) = {1, 2}


(***************************************************************************)
(* C25.  After SuffixAutomaton.build(P) for any pattern P, every non-root  *)
(* state v with suffix link u satisfies u.minEnd <= v.minEnd and           *)
(* u.maxEnd >= v.maxEnd, and each state's minEnd / maxEnd equal the        *)
(* smallest / largest end position in P over all occurrences of the        *)
(* strings the state represents.                                           *)
(* The automaton is observed where the fuzzy phase built it; the strings a *)
(* state represents are the substrings of P that lead from the root to it. *)
(***************************************************************************)
\* the state the automaton is in after reading w from the root, -1 when it falls off
RECURSIVE SamRun(_, _, _)
SamRun(nodes, state, w) ==
    IF w = << >> THEN state
    ELSE IF NextHas(At(nodes, state), Head(w))
         THEN SamRun(nodes, At(nodes, state).next[Head(w)], Tail(w))
         ELSE -1

Substrings(P) == {Slice(P, i, j) : i \in 0 .. Len(P) - 1, j \in 1 .. Len(P)} \ {<< >>}

\* the positions of P at which an occurrence of w ends
EndsOf(P, w) == {e \in Len(w) - 1 .. Len(P) - 1 : Slice(P, e + 1 - Len(w), e + 1) = w}

\* the end positions of the strings state v represents
EndsOfState(P, nodes, v) ==
    UNION {EndsOf(P, w) : w \in {x \in Substrings(P) : SamRun(nodes, 0, x) = v}}

MinOf(S) == CHOOSE x \in S : \A y \in S : x <= y

EndPositions(P, nodes) ==
    \A v \in 1 .. Len(nodes) - 1 :
        LET ends == EndsOfState(P, nodes, v)
            u == At(nodes, v).link
        IN  /\ ends # {}
            /\ At(nodes, v).minEnd = MinOf(ends)
            /\ At(nodes, v).maxEnd = MaxOf(ends)
            /\ u \in 0 .. Len(nodes) - 1
            /\ At(nodes, u).minEnd <= At(nodes, v).minEnd
            /\ At(nodes, u).maxEnd >= At(nodes, v).maxEnd

C25_EndPositions ==
    FuzzySearched
    => EndPositions(ArrayFrom(FuzzyPattern), SuffixAutomatonBuild(FuzzyPattern).nodes)

\* "abbba": the state of "b" is a clone, and "b" ends at 1, 2 and 3
C25_Witness ==
    /\ FuzzySearched
    /\ req.searchText = MidText
    /\ LET nodes == SuffixAutomatonBuild(FuzzyPattern).nodes
           b == SamRun(nodes, 0, <<"b">>)
       IN  /\ Len(nodes) > Len(MidText) + 1
           /\ At(nodes, b).len = 1
           /\ At(nodes, b).minEnd = 1
           /\ At(nodes, b).maxEnd = 3
           /\ At(nodes, 0).minEnd = 0
           /\ At(nodes, 0).maxEnd = 4


(***************************************************************************)
(* C26.  Every mid raw-match emitted by the fuzzy phase is strictly        *)
(* interior: T[flatStart, flatEndExcl) is a substring of P of length       *)
(* matchedLen >= minMatchLen that occurs in P neither as a prefix of P nor *)
(* as a suffix of P, and it is the longest substring of P ending at text   *)
(* position flatEndExcl-1.                                                 *)
(* P and T are the strings the fuzzy phase is given.                       *)
(***************************************************************************)
\* the raw-matches of the fuzzy phase of the served request
FuzzyRaw == RawMatchesOf(FuzzyText, FuzzyPattern)

IsSubstring(P, w) == \E i \in 0 .. Len(P) - Len(w) : Slice(P, i, i + Len(w)) = w

StrictlyInterior(P, T, m) ==
    LET w == Slice(T, m.flatStart, m.flatEndExclusive)
    IN  /\ m.matchType = "mid"
        /\ 0 <= m.flatStart
        /\ m.flatEndExclusive <= Len(T)
        /\ m.matchedLen = m.flatEndExclusive - m.flatStart
        /\ m.matchedLen >= computeMinMatchLen(Len(P))
        /\ m.matchedLen <= Len(P)
        /\ IsSubstring(P, w)
        /\ Slice(P, 0, m.matchedLen) # w
        /\ Slice(P, Len(P) - m.matchedLen, Len(P)) # w
        /\ \A from \in 0 .. m.flatStart - 1 : ~IsSubstring(P, Slice(T, from, m.flatEndExclusive))

C26_MidStrictlyInterior ==
    FuzzySearched
    => \A k \in 1 .. Len(FuzzyRaw.midMatches) :
           StrictlyInterior(FuzzyPattern, FuzzyText, FuzzyRaw.midMatches[k])

\* the claim on patterns of the basic plane
C26_MidStrictlyInteriorBasicPlane ==
    (FuzzySearched /\ BasicPlane(req.searchText))
    => \A k \in 1 .. Len(FuzzyRaw.midMatches) :
           StrictlyInterior(FuzzyPattern, FuzzyText, FuzzyRaw.midMatches[k])

\* "😀abb" searched in "abb": "abb" ends P and is emitted as a mid match
C26_Observed ==
    /\ FuzzySearched
    /\ req.op = "delete_matching_text"
    /\ req.searchText = AstralText
    /\ prev.content = <<"a", "b", "b">>
    /\ FuzzyRaw.midMatches
           = <<[matchType |-> "mid", flatStart |-> 0, flatEndExclusive |-> 3, matchedLen |-> 3]>>
    /\ Slice(FuzzyPattern, Len(FuzzyPattern) - 3, Len(FuzzyPattern)) = FuzzyText

\* "abbba" searched in "bbb": the mid match is "bbb"
C26_MidEmitted ==
    /\ FuzzySearched
    /\ req.searchText = MidText
    /\ prev.content = <<"b", "b", "b">>
    /\ FuzzyRaw.midMatches
           = <<[matchType |-> "mid", flatStart |-> 0, flatEndExclusive |-> 3, matchedLen |-> 3]>>


(***************************************************************************)
(* C27.  The raw-matches the fuzzy phase selects for materialization all   *)
(* have matchedLen equal to the maximum matchedLen over the union of       *)
(* qualified prefix, qualified suffix, mid and combined raw-matches, have  *)
(* pairwise distinct (flatStart, flatEndExcl), are in ascending flatStart  *)
(* order, and are the first min(3, count) of the matches satisfying those  *)
(* conditions.                                                             *)
(***************************************************************************)
\* the qualified prefix, qualified suffix, mid and combined raw-matches, as a set
AllRawMatches(raw) ==
    Range(raw.qualifiedPrefixes) \cup Range(raw.qualifiedSuffixes)
        \cup Range(raw.midMatches) \cup Range(raw.combinedMatches)

FlatKey(m) == <<m.flatStart, m.flatEndExclusive>>

\* the flat spans of the longest raw-matches
LongestKeys(raw) ==
    {FlatKey(m) : m \in {x \in AllRawMatches(raw) :
                            \A y \in AllRawMatches(raw) : y.matchedLen <= x.matchedLen}}

Selection(raw, selected) ==
    LET keys == {FlatKey(selected[k]) : k \in 1 .. Len(selected)}
    IN  /\ \A k \in 1 .. Len(selected) :
               /\ selected[k] \in AllRawMatches(raw)
               /\ FlatKey(selected[k]) \in LongestKeys(raw)
        /\ \A j, k \in 1 .. Len(selected) : j # k => FlatKey(selected[j]) # FlatKey(selected[k])
        /\ \A k \in 1 .. Len(selected) - 1 : selected[k].flatStart <= selected[k + 1].flatStart
        /\ Len(selected) = Min(3, Cardinality(LongestKeys(raw)))
        /\ \A left \in LongestKeys(raw) \ keys : \A key \in keys : key[1] <= left[1]

C27_Selection == FuzzySearched => Selection(FuzzyRaw, SelectRawMatches(FuzzyRaw))

\* "abbba" searched in "bbbbbb": four mid raw-matches "bbb", of which three are selected
C27_Witness ==
    /\ FuzzySearched
    /\ req.searchText = MidText
    /\ Cardinality(LongestKeys(FuzzyRaw)) > 3
    /\ Len(SelectRawMatches(FuzzyRaw)) = 3

\* the selected raw-matches are not in the order in which they were collected
C27_Reordered ==
    /\ FuzzySearched
    /\ SelectRawMatches(FuzzyRaw) # SelectRawMatchesUnsorted(FuzzyRaw)


(***************************************************************************)
(* C28.  Every selected suffix raw-match materializes into a candidate:    *)
(* the candidate's rawEndExcl is the raw end of the matched suffix,        *)
(* F-to-R[flatEndExcl-1] + 1, and its rawStart is widened left token by    *)
(* token until the span holds at least m non-whitespace scalars or         *)
(* rawStart = 0; in particular a suffix match ending at the last           *)
(* non-whitespace scalar of the file yields a suggestion.                  *)
(***************************************************************************)
\* the candidate the fuzzy phase makes of a selected raw-match
Materialized(m) ==
    Materialize(m, Len(FuzzyPattern), ReadHelpers.rawTextChars,
                ReadHelpers.flatRawToRaw, ReadHelpers.rawToFlatRaw)

SuffixCandidate(m, c) ==
    LET h == ReadHelpers
    IN  /\ IsCandidate(c)
        /\ c.rawEndExclusive = At(h.flatRawToRaw, m.flatEndExclusive - 1) + 1
        /\ c.rawStart <= At(h.flatRawToRaw, m.flatStart)
        /\ c.rawStart = 0 \/ IsWhiteSpace(CharAt(h.rawTextChars, c.rawStart - 1))
        /\ \/ c.rawStart = 0
           \/ countNonWsInRange(c.rawStart, c.rawEndExclusive, h.rawTextChars)
                  >= Len(FuzzyPattern)

C28_SuffixCandidates ==
    FuzzySearched
    => LET selected == SelectRawMatches(FuzzyRaw)
       IN  /\ \A k \in 1 .. Len(selected) :
                  selected[k].matchType = "suffix"
                  => SuffixCandidate(selected[k], Materialized(selected[k]))
           /\ (\E k \in 1 .. Len(selected) :
                  /\ selected[k].matchType = "suffix"
                  /\ selected[k].flatEndExclusive = Len(FuzzyText))
              => resp.SuggestedParameterValues # << >>

\* "aabb" searched in "abb": the suffix "abb" ends the file and no candidate is made
C28_Observed ==
    /\ FuzzySearched
    /\ req.op = "delete_matching_text"
    /\ req.searchText = PartialText
    /\ prev.content = <<"a", "b", "b">>
    /\ SelectRawMatches(FuzzyRaw)
           = <<[matchType |-> "suffix", flatStart |-> 0, flatEndExclusive |-> 3,
                matchedLen |-> 3]>>
    /\ ~IsCandidate(Materialized(SelectRawMatches(FuzzyRaw)[1]))
    /\ resp.message = "noMatchFound"
    /\ resp.SuggestedParameterValues = << >>

\* "aabb" searched in "abba": the candidate of the suffix "abb" takes in the "a" behind it
C28_OneScalarMore ==
    /\ FuzzySearched
    /\ req.searchText = PartialText
    /\ prev.content = <<"a", "b", "b", "a">>
    /\ \E k \in 1 .. Len(SelectRawMatches(FuzzyRaw)) :
           LET m == SelectRawMatches(FuzzyRaw)[k]
           IN  /\ m.matchType = "suffix"
               /\ m.flatEndExclusive = 3
               /\ Materialized(m).rawEndExclusive = 4
    /\ \E k \in 1 .. Len(resp.SuggestedParameterValues) :
           resp.SuggestedParameterValues[k].searchText = <<"a", "b", "b", "a">>


(***************************************************************************)
(* C29.  The disambiguation loop terminates for every file and every list  *)
(* of spans: in each round every member of a duplicate group either        *)
(* strictly grows its raw span within [0, |R|] or is permanently marked    *)
(* non-expandable, and on exit it returns exactly one string per input     *)
(* span, whose raw span contains that input span.                          *)
(* The loop is observed where replace and delete hand it spans: the exact  *)
(* matches of a multiple-matches failure and the fuzzy candidates of a     *)
(* no-match failure.  Its rounds are followed with the program's own       *)
(* grouping and expansion.                                                 *)
(***************************************************************************)
MatchIssueSuggested ==
    /\ pc = "done"
    /\ prev.fstatus = "ok"
    /\ req.op \in {"replace_matching_text", "delete_matching_text"}
    /\ trace.op = "search"
    /\ resp.message \in {"multipleMatches", "noMatchFound"}
    /\ Len(trace.spans) > 0

\* the members of duplicate groups in a round that starts with slices
RoundGroup(slices, retired) ==
    InDuplicateGroup(slices,
        [k \in 1 .. Len(slices) |->
            Slice(ReadHelpers.flatRawText, slices[k].flatStart, slices[k].flatEndExclusive)],
        (1 .. Len(slices)) \ retired)

RoundExpanded(slices) ==
    [k \in 1 .. Len(slices) |->
        expandSpanForDisambiguation(slices[k], ReadHelpers.rawTextChars,
                                    ReadHelpers.rawToFlatRaw)]

\* to is from, strictly grown, and not past the text unless from was
StrictlyGrown(from, to, rawLen) ==
    /\ 0 <= to.rawStart
    /\ to.rawStart <= from.rawStart
    /\ from.rawEndExclusive <= to.rawEndExclusive
    /\ to.rawEndExclusive <= Max(rawLen, from.rawEndExclusive)
    /\ to.rawEndExclusive - to.rawStart > from.rawEndExclusive - from.rawStart

\* the rounds from slices on: how many, whether each was as stated, and the spans at exit
RECURSIVE LoopRounds(_, _, _)
LoopRounds(slices, retired, n) ==
    LET group == RoundGroup(slices, retired)
        expanded == RoundExpanded(slices)
        grown == {k \in group : StrictlyGrown(slices[k], expanded[k], Len(prev.content))}
        same == {k \in group : /\ expanded[k].rawStart = slices[k].rawStart
                               /\ expanded[k].rawEndExclusive = slices[k].rawEndExclusive}
        rest == LoopRounds([k \in 1 .. Len(slices) |->
                               IF k \in grown THEN expanded[k] ELSE slices[k]],
                           retired \cup same, n + 1)
    IN  IF group = {} THEN [rounds |-> n, asStated |-> TRUE, final |-> slices]
        ELSE IF grown \cup same # group
        THEN [rounds |-> n, asStated |-> FALSE, final |-> slices]
        ELSE rest

C29_LoopTerminates ==
    MatchIssueSuggested
    => LET loop == LoopRounds(trace.spans, {}, 0)
           suggestions == resp.SuggestedParameterValues
       IN  /\ loop.asStated
           /\ loop.rounds <= Len(trace.spans) * (Len(prev.content) + 1)
           /\ loop.final = FinalSlices
           /\ Len(suggestions) = Len(trace.spans)
           /\ \A k \in 1 .. Len(trace.spans) :
                  /\ SuggestionText(k) = sliceBySpan(ReadHelpers.rawTextChars, loop.final[k])
                  /\ loop.final[k].rawStart <= trace.spans[k].rawStart
                  /\ trace.spans[k].rawEndExclusive <= loop.final[k].rawEndExclusive

\* "a" searched in "a a a": two rounds of expansion, then a round that retires all three
C29_Witness ==
    /\ MatchIssueSuggested
    /\ resp.message = "multipleMatches"
    /\ req.searchText = <<"a">>
    /\ prev.content = <<"a", "SP", "a", "SP", "a">>
    /\ LoopRounds(trace.spans, {}, 0).rounds = 3
    /\ \A k \in 1 .. 3 : SuggestionText(k) = prev.content

\* the loop is given fuzzy candidates
C29_FuzzyCandidates ==
    /\ MatchIssueSuggested
    /\ resp.message = "noMatchFound"
    /\ Len(trace.spans) >= 2
    /\ LoopRounds(trace.spans, {}, 0).rounds >= 1


(***************************************************************************)
(* C30.  Every successful move_text, in either mode, preserves the file's  *)
(* non-whitespace content: the multiset of non-whitespace scalars of the   *)
(* written file equals that of the original, and apart from the relocated  *)
(* moved text the non-whitespace scalars keep their original relative      *)
(* order.                                                                  *)
(***************************************************************************)
MoveSucceeded == ServedOnTextFile("move_text") /\ resp.success

\* F without the n scalars that follow its first i
Without(F, i, n) == SubSeq(F, 1, i) \o SubSeq(F, i + n + 1, Len(F))

\* w stands in F behind its first i scalars
StandsAt(F, w, i) == i + Len(w) <= Len(F) /\ SubSeq(F, i + 1, i + Len(w)) = w

\* F1 is F0 with one occurrence of w taken out and put back somewhere
RelocatedIn(F0, F1, w) ==
    \E i \in 0 .. Len(F0), j \in 0 .. Len(F1) :
        /\ StandsAt(F0, w, i)
        /\ StandsAt(F1, w, j)
        /\ Without(F0, i, Len(w)) = Without(F1, j, Len(w))

\* the relocated text is the one the move took out and put down (textToMove)
C30_MovePreservesContent ==
    MoveSucceeded
    => LET F0 == Stripped(prev.content)
           F1 == Stripped(content)
       IN  /\ \A c \in Scalars \ WhiteSpaceScalars :
                  Cardinality({i \in 1 .. Len(F1) : F1[i] = c})
                      = Cardinality({i \in 1 .. Len(F0) : F0[i] = c})
           /\ RelocatedIn(F0, F1, Stripped(trace.textToMove))

\* on a file of the basic plane the relocated text is the requested one
C30_RequestedTextRelocated ==
    MoveSucceeded /\ BasicPlane(prev.content)
    => /\ Stripped(trace.textToMove) = Stripped(req.textToBeMoved)
       /\ RelocatedIn(Stripped(prev.content), Stripped(content), Stripped(req.textToBeMoved))

\* a move of lines: "b" of the first line is put behind the line of "a"
C30_Witness ==
    /\ MoveSucceeded
    /\ trace.isLineBoundaryMove
    /\ req.textToBeMoved = <<"b">>
    /\ prev.content = <<"b", "LF", "a">>
    /\ content = <<"a", "LF", "b">>

\* a move within a line: "b" is put before "a"
C30_WithinLine ==
    /\ MoveSucceeded
    /\ ~trace.isLineBoundaryMove
    /\ req.textToBeMoved = <<"b">>
    /\ prev.content = <<"a", "SP", "b">>
    /\ content = <<"b", "a", "SP">>


====
